---------------------------- MODULE Spec2Model ----------------------------
(***************************************************************************)
(* The swap router of partisiablockchain/defi (src/rust/swap-router): a    *)
(* saga coordinator that moves a user's tokens through a chain of          *)
(* liquidity pools.  Every external call completes in a later invocation   *)
(* (a callback), so the model keeps the contract state, the continuations  *)
(* the host still has to dispatch, and a history of the calls issued for   *)
(* each route.                                                             *)
(***************************************************************************)
EXTENDS Integers, Sequences, FiniteSets, TLC

(***************************************************************************)
(* Bounds of the model.                                                    *)
(***************************************************************************)
\* Routes the router registers in one behaviour.
MaxRoutes == 2
\* Hops of all the routes registered in one behaviour, taken together.
MaxTotalHops == 2
\* add_swap_contract calls that succeed in one behaviour.
MaxAdds == 1
\* Longest swap route handed to route_swap in SpecValidate.
MaxInputLen == 6

(***************************************************************************)
(* Program constants.                                                      *)
(***************************************************************************)
MAX_ROUTE_LENGTH == 5

(***************************************************************************)
(* Addresses and amounts the inputs are drawn from.                        *)
(***************************************************************************)
ROUTER == "router"
Users == {"alice", "bob"}
Admins == {"admin"}
Tokens == {"A", "B", "C"}
\* "P9" is never registered at construction.
PoolAddrs == {"P1", "P2", "P9"}
\* Output amounts a pool may quote for a lock or realise when executing it.
PoolAmounts == {50, 100}
\* The approval amount, TokenAmount::MAX (u128::MAX), kept symbolic.
TokenAmountMAX == "TokenAmount::MAX"
NoRoute == 0 - 1

\* The registry handed to initialize.
InitialSwapContracts ==
    << [swap_address |-> "P1", token_a_address |-> "A", token_b_address |-> "B"],
       [swap_address |-> "P2", token_a_address |-> "B", token_b_address |-> "C"] >>

VARIABLES
    permission_add_swap,   \* RouterState.permission_add_swap: the permitted senders
    swap_contracts,        \* RouterState.swap_contracts: Vec<SwapContractInfo>
    next_route_id,         \* RouteTracker.next_route_id
    active_routes,         \* RouteTracker.active_routes: RouteId -> RouteInformation
    pending,               \* continuations the host has not dispatched yet
    calls,                 \* history: the external calls issued for each route
    grants,                \* history: what each lock acquisition of a route returned
    received,              \* history: what each lock execution of a route returned
    failed,                \* history: the stage of each route's first reported failure
    registered,            \* history: how each route was registered
    last                   \* the most recent invocation and how it ended

vars == << permission_add_swap, swap_contracts, next_route_id, active_routes,
           pending, calls, grants, received, failed, registered, last >>

contract_state == << permission_add_swap, swap_contracts, next_route_id, active_routes >>

(***************************************************************************)
(* External calls, as the interaction helpers build them.                  *)
(***************************************************************************)
Call(to, name, args) == [to |-> to, name |-> name, args |-> args]

transfer_from(token, from, to, amount) == Call(token, "transfer_from", <<from, to, amount>>)
transfer(token, to, amount) == Call(token, "transfer", <<to, amount>>)
approve(token, spender, amount) == Call(token, "approve", <<spender, amount>>)
deposit(swap, token, amount) == Call(swap, "deposit", <<token, amount>>)
withdraw(swap, token, amount, wait) == Call(swap, "withdraw", <<token, amount, wait>>)
acquire_swap_lock(swap, token_in, amount_in, amount_out_minimum) ==
    Call(swap, "acquire_swap_lock", <<token_in, amount_in, amount_out_minimum>>)
execute_lock_swap(swap, lock_id) == Call(swap, "execute_lock_swap", <<lock_id>>)
cancel_lock(swap, lock_id) == Call(swap, "cancel_lock", <<lock_id>>)

\* A batch of calls with its continuation; origin is bookkeeping of the model
\* (the route the batch was issued for), no handler reads it.
\* A continuation that carries no arguments.
Continuation_without_arguments(cb, args, batch, origin) ==
    [cb |-> cb, args |-> <<>>, batch |-> batch, origin |-> origin]

Continuation(cb, args, batch, origin) ==
    [cb |-> cb, args |-> args, batch |-> batch, origin |-> origin]

(***************************************************************************)
(* Sequence helpers.                                                       *)
(***************************************************************************)
Front(s) == s[1]
Back(s) == s[Len(s)]
PopFront(s) == SubSeq(s, 2, Len(s))

(***************************************************************************)
(* Route validation.                                                       *)
(***************************************************************************)
\* A lookup that returns the index of the last descriptor with this address.
FindSwapContract_latest(known_swap_contracts, swap_address) ==
    LET S == { i \in 1..Len(known_swap_contracts) :
                 known_swap_contracts[i].swap_address = swap_address }
    IN  IF S = {} THEN 0 ELSE CHOOSE i \in S : \A j \in S : i >= j

\* known_swap_contracts.iter().find(..): the index of the first descriptor
\* with this address, 0 when there is none.
FindSwapContract(known_swap_contracts, swap_address) ==
    LET S == { i \in 1..Len(known_swap_contracts) :
                 known_swap_contracts[i].swap_address = swap_address }
    IN  IF S = {} THEN 0 ELSE CHOOSE i \in S : \A j \in S : i <= j

\* The loop of validate_route_and_add_info with the second branch of the token
\* match returning the descriptor's tokens in registry order.
RECURSIVE ValidateLoop_unflipped(_, _, _, _, _)
ValidateLoop_unflipped(swap_route, known_swap_contracts, prev_output_token, i, res) ==
    IF i > Len(swap_route)
    THEN [err |-> "none", res |-> res, prev_output_token |-> prev_output_token]
    ELSE LET idx == FindSwapContract(known_swap_contracts, swap_route[i]) IN
         IF idx = 0
         THEN [err |-> "Unknown swap address", res |-> <<>>,
               prev_output_token |-> prev_output_token]
         ELSE LET swap_info == known_swap_contracts[idx] IN
              IF \/ prev_output_token = swap_info.token_a_address
                 \/ prev_output_token = swap_info.token_b_address
              THEN ValidateLoop_unflipped(swap_route, known_swap_contracts,
                       swap_info.token_b_address, i + 1,
                       Append(res, [swap_address |-> swap_route[i],
                                    token_in |-> swap_info.token_a_address,
                                    token_out |-> swap_info.token_b_address]))
              ELSE [err |-> "No tokens at swap contract matches token", res |-> <<>>,
                    prev_output_token |-> prev_output_token]

RECURSIVE ValidateLoop(_, _, _, _, _)
ValidateLoop(swap_route, known_swap_contracts, prev_output_token, i, res) ==
    IF i > Len(swap_route)
    THEN [err |-> "none", res |-> res, prev_output_token |-> prev_output_token]
    ELSE LET idx == FindSwapContract(known_swap_contracts, swap_route[i]) IN
         IF idx = 0
         THEN [err |-> "Unknown swap address", res |-> <<>>,
               prev_output_token |-> prev_output_token]
         ELSE LET swap_info == known_swap_contracts[idx] IN
              IF prev_output_token = swap_info.token_a_address
              THEN ValidateLoop(swap_route, known_swap_contracts,
                       swap_info.token_b_address, i + 1,
                       Append(res, [swap_address |-> swap_route[i],
                                    token_in |-> swap_info.token_a_address,
                                    token_out |-> swap_info.token_b_address]))
              ELSE IF prev_output_token = swap_info.token_b_address
              THEN ValidateLoop(swap_route, known_swap_contracts,
                       swap_info.token_a_address, i + 1,
                       Append(res, [swap_address |-> swap_route[i],
                                    token_in |-> swap_info.token_b_address,
                                    token_out |-> swap_info.token_a_address]))
              ELSE [err |-> "No tokens at swap contract matches token", res |-> <<>>,
                    prev_output_token |-> prev_output_token]

\* validate_route_and_add_info without its assertion on the route length.
validate_route_and_add_info_any_length(swap_route, known_swap_contracts, token_in, token_out) ==
    LET walk == ValidateLoop(swap_route, known_swap_contracts, token_in, 1, <<>>) IN
    IF walk.err # "none"
    THEN [err |-> walk.err, res |-> <<>>]
    ELSE IF token_out # walk.prev_output_token
    THEN [err |-> "The output token from the swap route doesn't match the intended output",
          res |-> <<>>]
    ELSE [err |-> "none", res |-> walk.res]

\* [err, res]: err = "none" and res the hops, or the panic and no hops.
validate_route_and_add_info(swap_route, known_swap_contracts, token_in, token_out) ==
    IF ~(Len(swap_route) <= MAX_ROUTE_LENGTH)
    THEN [err |-> "Swap route length is greater than maximum allowed", res |-> <<>>]
    ELSE LET walk == ValidateLoop(swap_route, known_swap_contracts, token_in, 1, <<>>) IN
         IF walk.err # "none"
         THEN [err |-> walk.err, res |-> <<>>]
         ELSE IF token_out # walk.prev_output_token
         THEN [err |-> "The output token from the swap route doesn't match the intended output",
               res |-> <<>>]
         ELSE [err |-> "none", res |-> walk.res]

(***************************************************************************)
(* RouteInformation.                                                       *)
(***************************************************************************)
\* RouteInformation::new with the minimum written to the front lock
\* (front_mut for back_mut).
RouteInformation_new_minimum_on_front(route, initial_amount_in, amount_out_minimum, user) ==
    [ user |-> user,
      initial_amount_in |-> initial_amount_in,
      initial_token_in |-> Front(route).token_in,
      final_received_amount |-> 0,
      final_token_out |-> Back(route).token_out,
      locks_wanted |->
          [ i \in 1..Len(route) |->
              [ swap_info |-> route[i],
                amount_in |-> IF i = 1 THEN initial_amount_in ELSE 0,
                amount_out_minimum |-> IF i = 1 THEN amount_out_minimum ELSE 0 ] ],
      locks_waiting_for_execution |-> <<>>,
      pending_withdraw |-> <<>> ]

\* route is not empty (route.first().unwrap()).
\* RouteInformation::new that gives every wanted lock the initial amount.
RouteInformation_new_amount_on_every_lock(route, initial_amount_in, amount_out_minimum, user) ==
    [ user |-> user,
      initial_amount_in |-> initial_amount_in,
      initial_token_in |-> Front(route).token_in,
      final_received_amount |-> 0,
      final_token_out |-> Back(route).token_out,
      locks_wanted |->
          [ i \in 1..Len(route) |->
              [ swap_info |-> route[i],
                amount_in |-> initial_amount_in,
                amount_out_minimum |-> IF i = Len(route) THEN amount_out_minimum ELSE 0 ] ],
      locks_waiting_for_execution |-> <<>>,
      pending_withdraw |-> <<>> ]

RouteInformation_new(route, initial_amount_in, amount_out_minimum, user) ==
    [ user |-> user,
      initial_amount_in |-> initial_amount_in,
      initial_token_in |-> Front(route).token_in,
      final_received_amount |-> 0,
      final_token_out |-> Back(route).token_out,
      locks_wanted |->
          [ i \in 1..Len(route) |->
              [ swap_info |-> route[i],
                amount_in |-> IF i = 1 THEN initial_amount_in ELSE 0,
                amount_out_minimum |-> IF i = Len(route) THEN amount_out_minimum ELSE 0 ] ],
      locks_waiting_for_execution |-> <<>>,
      pending_withdraw |-> <<>> ]

\* pop_next_wanted_lock that empties the queue of wanted locks.
pop_next_wanted_lock_draining(route) == [route EXCEPT !.locks_wanted = <<>>]

\* pop_next_wanted_lock that takes the wanted lock at the back of the queue.
pop_next_wanted_lock_from_back(route) ==
    [route EXCEPT !.locks_wanted = SubSeq(@, 1, Len(@) - 1)]

\* The queue left by pop_next_wanted_lock.
pop_next_wanted_lock(route) == [route EXCEPT !.locks_wanted = PopFront(@)]

\* update_next_pending_lock_id that puts the acquired lock at the front of the
\* queue.
update_next_pending_lock_id_at_front(route, swap_info, lock_id) ==
    [route EXCEPT !.locks_waiting_for_execution =
                      << [swap_info |-> swap_info, lock_id |-> lock_id] >> \o @]

update_next_pending_lock_id(route, swap_info, lock_id) ==
    [route EXCEPT !.locks_waiting_for_execution =
                      Append(@, [swap_info |-> swap_info, lock_id |-> lock_id])]

\* update_next_wanted_lock_amount_in that leaves the next wanted lock as it is.
update_next_wanted_lock_amount_in_dropped(route, amount_in) == route

update_next_wanted_lock_amount_in(route, amount_in) ==
    IF route.locks_wanted # <<>>
    THEN [route EXCEPT !.locks_wanted[1].amount_in = amount_in]
    ELSE route

\* take_next_pending_lock that leaves the executed lock in the queue.
take_next_pending_lock_keeping(route) == route

take_next_pending_lock(route) == [route EXCEPT !.locks_waiting_for_execution = PopFront(@)]

\* update_pending_withdraw that records the token the route started with as
\* the token to withdraw.
update_pending_withdraw_of_input_token(route, pending_withdraw) ==
    [route EXCEPT !.pending_withdraw =
                      << [swap_address |-> pending_withdraw.swap_address,
                          withdraw_token |-> route.initial_token_in] >>]

update_pending_withdraw(route, pending_withdraw) ==
    [route EXCEPT !.pending_withdraw = <<pending_withdraw>>]

\* take_pending_withdraw that leaves the pending withdraw in the record.
take_pending_withdraw_keeping(route) == route

take_pending_withdraw(route) == [route EXCEPT !.pending_withdraw = <<>>]

\* update_final_amount_out that leaves the final amount as it is.
update_final_amount_out_dropped(route, amount_out) == route

update_final_amount_out(route, amount_out) ==
    [route EXCEPT !.final_received_amount = amount_out]

(***************************************************************************)
(* RouteTracker.                                                           *)
(***************************************************************************)
\* An insert that keeps only the inserted entry.
insert_dropping_others(map, key, value) == [ k \in {key} |-> value ]

\* AvlTreeMap::insert
insert(map, key, value) ==
    [ k \in (DOMAIN map) \cup {key} |-> IF k = key THEN value ELSE map[k] ]

\* modify_route that writes the changed copy back under the first route id.
modify_route_under_first_id(routes, route_id, route) == insert(routes, 0, route)

\* modify_route that drops the changed copy.
modify_route_without_write_back(routes, route_id, route) == routes

\* modify_route writes the changed copy back under the same id.
modify_route(routes, route_id, route) == insert(routes, route_id, route)


(***************************************************************************)
(* The environment: the host that dispatches continuations, and the pools. *)
(***************************************************************************)
\* The lock id a pool returns for the next acquisition of route r: ids are
\* fresh, and do not depend on how the host interleaves the routes.
FreshLockId(r) == r * MAX_ROUTE_LENGTH + Len(grants[r]) + 1

\* The outputs a pool may quote for an acquire_swap_lock call: a pool grants
\* a lock only when the output reaches the requested minimum.
QuotesFor(call) == { a \in PoolAmounts : a >= call.args[3] }

\* The stage of the saga a call belongs to: custody of the input tokens, the
\* acquisition of the locks, or everything from the first approve onwards.
Stage(name) ==
    CASE name = "transfer_from" -> "custody"
      [] name = "acquire_swap_lock" -> "acquisition"
      [] OTHER -> "execution"

\* The host reports the completion of p's batch: the first failure reported
\* to a route is remembered by the stage of the failing call.
Reported(p, success) ==
    failed' = IF ~success /\ p.origin \in DOMAIN failed /\ failed[p.origin] = "none"
              THEN [failed EXCEPT ![p.origin] = Stage(Back(p.batch).name)]
              ELSE failed

\* The entries the history keeps for a batch: each call with the handler that
\* issued it.
Issued(op, batch) == [ i \in 1..Len(batch) |-> [by |-> op, call |-> batch[i]] ]

Invocation(op, route_id, err, args) ==
    [op |-> op, route_id |-> route_id, err |-> err, args |-> args]

\* An invocation that panics: none of its state changes or events survive.
Panic(p, op, route_id, err) ==
    /\ pending' = pending \ {p}
    /\ last' = Invocation(op, route_id, err, <<>>)
    /\ UNCHANGED << contract_state, calls, registered >>

\* An invocation that returns (state, vec![batch]), the batch carrying at most
\* one continuation.
Return(p, op, route_id, routes, batch, conts) ==
    /\ active_routes' = routes
    /\ calls' = [calls EXCEPT ![route_id] = @ \o Issued(op, batch)]
    /\ pending' = (pending \ {p}) \cup conts
    /\ last' = Invocation(op, route_id, "none", <<>>)
    /\ UNCHANGED << permission_add_swap, swap_contracts, next_route_id, registered >>

(***************************************************************************)
(* Event builders.                                                         *)
(***************************************************************************)
\* build_events_cancel_route leaving out the first acquired lock (iter().skip(1)).
build_events_cancel_route_skipping_first(route) ==
    [ i \in 1..(Len(route.locks_waiting_for_execution) - 1) |->
        cancel_lock(route.locks_waiting_for_execution[i + 1].swap_info.swap_address,
                    route.locks_waiting_for_execution[i + 1].lock_id) ]
    \o << transfer(route.initial_token_in, route.user, route.initial_amount_in) >>

\* build_events_cancel_route that adds the refund a second time.
build_events_cancel_route_refunding_twice(route) ==
    [ i \in 1..Len(route.locks_waiting_for_execution) |->
        cancel_lock(route.locks_waiting_for_execution[i].swap_info.swap_address,
                    route.locks_waiting_for_execution[i].lock_id) ]
    \o << transfer(route.initial_token_in, route.user, route.initial_amount_in),
          transfer(route.initial_token_in, route.user, route.initial_amount_in) >>

\* build_events_cancel_route that leaves out the lock acquired last.
build_events_cancel_route_without_last(route) ==
    [ i \in 1..(Len(route.locks_waiting_for_execution) - 1) |->
        cancel_lock(route.locks_waiting_for_execution[i].swap_info.swap_address,
                    route.locks_waiting_for_execution[i].lock_id) ]
    \o << transfer(route.initial_token_in, route.user, route.initial_amount_in) >>

build_events_cancel_route(route) ==
    [ i \in 1..Len(route.locks_waiting_for_execution) |->
        cancel_lock(route.locks_waiting_for_execution[i].swap_info.swap_address,
                    route.locks_waiting_for_execution[i].lock_id) ]
    \o << transfer(route.initial_token_in, route.user, route.initial_amount_in) >>

build_acquire_lock_events(lock_info) ==
    << acquire_swap_lock(lock_info.swap_info.swap_address, lock_info.swap_info.token_in,
                         lock_info.amount_in, lock_info.amount_out_minimum) >>

build_max_approve_event_for_execute(pending_lock) ==
    << approve(pending_lock.swap_info.token_in, pending_lock.swap_info.swap_address,
               TokenAmountMAX) >>

\* The final transfer built with the amount the route started with.
build_final_transfer_of_input(route_information) ==
    << transfer(route_information.final_token_out, route_information.user,
                route_information.initial_amount_in) >>

\* The transfer execute_route_callback builds once every lock is executed.
build_final_transfer(route_information) ==
    << transfer(route_information.final_token_out, route_information.user,
                route_information.final_received_amount) >>

(***************************************************************************)
(* Actions of the contract.                                                *)
(***************************************************************************)
\* RouteTracker::next_route_id without the increment.
RouteTracker_next_route_id_reusing(id) == [res |-> id, next_route_id |-> id]

\* RouteTracker::next_route_id: the id handed out and the counter it leaves.
RouteTracker_next_route_id(id) == [res |-> id, next_route_id |-> id + 1]

\* route_swap taking the route id before it validates the route.
route_swap_allocating_first(sender, swap_route, token_in, token_out, amount_in, amount_out_minimum) ==
    LET args == << sender, swap_route, token_in, token_out, amount_in, amount_out_minimum >>
        allocated == RouteTracker_next_route_id(next_route_id)
        route_id == allocated.res
        checked == IF swap_route = <<>>
                   THEN [err |-> "The given route is empty", res |-> <<>>]
                   ELSE validate_route_and_add_info(swap_route, swap_contracts,
                                                    token_in, token_out)
    IN  IF checked.err # "none"
        THEN /\ next_route_id' = allocated.next_route_id
             /\ last' = Invocation("route_swap", NoRoute, checked.err, args)
             /\ UNCHANGED << permission_add_swap, swap_contracts, active_routes,
                             pending, calls, grants, received, failed, registered >>
        ELSE LET route_information ==
                     RouteInformation_new(checked.res, amount_in, amount_out_minimum, sender)
                 batch == << transfer_from(route_information.initial_token_in,
                                           route_information.user, ROUTER,
                                           route_information.initial_amount_in) >>
             IN  /\ next_route_id' = allocated.next_route_id
                 /\ active_routes' = insert(active_routes, route_id, route_information)
                 /\ pending' = pending \cup
                        { Continuation("start_lock_chain_callback", <<route_id>>,
                                       batch, route_id) }
                 /\ calls' = insert(calls, route_id, Issued("route_swap", batch))
                 /\ grants' = insert(grants, route_id, <<>>)
                 /\ received' = insert(received, route_id, <<>>)
                 /\ failed' = insert(failed, route_id, "none")
                 /\ registered' = insert(registered, route_id,
                        [ args |-> args, hops |-> checked.res,
                          route_information |-> route_information ])
                 /\ last' = Invocation("route_swap", route_id, "none", args)
                 /\ UNCHANGED << permission_add_swap, swap_contracts >>

route_swap(sender, swap_route, token_in, token_out, amount_in, amount_out_minimum) ==
    LET args == << sender, swap_route, token_in, token_out, amount_in, amount_out_minimum >>
        checked == IF swap_route = <<>>
                   THEN [err |-> "The given route is empty", res |-> <<>>]
                   ELSE validate_route_and_add_info(swap_route, swap_contracts,
                                                    token_in, token_out)
    IN  IF checked.err # "none"
        THEN /\ last' = Invocation("route_swap", NoRoute, checked.err, args)
             /\ UNCHANGED << contract_state, pending, calls, grants, received, failed, registered >>
        ELSE LET allocated == RouteTracker_next_route_id(next_route_id)
                 route_id == allocated.res
                 route_information ==
                     RouteInformation_new(checked.res, amount_in, amount_out_minimum, sender)
                 batch == << transfer_from(route_information.initial_token_in,
                                           route_information.user, ROUTER,
                                           route_information.initial_amount_in) >>
             IN  /\ next_route_id' = allocated.next_route_id
                 /\ active_routes' = insert(active_routes, route_id, route_information)
                 /\ pending' = pending \cup
                        { Continuation("start_lock_chain_callback", <<route_id>>,
                                       batch, route_id) }
                 /\ calls' = insert(calls, route_id, Issued("route_swap", batch))
                 /\ grants' = insert(grants, route_id, <<>>)
                 /\ received' = insert(received, route_id, <<>>)
                 /\ failed' = insert(failed, route_id, "none")
                 /\ registered' = insert(registered, route_id,
                        [ args |-> args, hops |-> checked.res,
                          route_information |-> route_information ])
                 /\ last' = Invocation("route_swap", route_id, "none", args)
                 /\ UNCHANGED << permission_add_swap, swap_contracts >>

\* Permission::assert_permission_for: a permission names the addresses it is
\* granted to; the assertion fails for every other sender.
assert_permission_for(permission, sender) == sender \in permission

\* add_swap_contract without the assertion of the sender's permission.
add_swap_contract_unguarded(sender, swap_address, token_a_address, token_b_address) ==
    LET args == << sender, swap_address, token_a_address, token_b_address >> IN
    /\ swap_contracts' = Append(swap_contracts,
                              [swap_address |-> swap_address,
                               token_a_address |-> token_a_address,
                               token_b_address |-> token_b_address])
    /\ last' = Invocation("add_swap_contract", NoRoute, "none", args)
    /\ UNCHANGED << permission_add_swap, next_route_id, active_routes,
                    pending, calls, grants, received, failed, registered >>

\* add_swap_contract that also rewrites, in every stored route, the tokens of
\* the wanted locks on the pool it registers.
add_swap_contract_updating_routes(sender, swap_address, token_a_address, token_b_address) ==
    LET args == << sender, swap_address, token_a_address, token_b_address >>
        Rewritten(lock) ==
            IF lock.swap_info.swap_address = swap_address
            THEN [lock EXCEPT !.swap_info = [swap_address |-> swap_address,
                                             token_in |-> token_a_address,
                                             token_out |-> token_b_address]]
            ELSE lock
    IN
    IF ~assert_permission_for(permission_add_swap, sender)
    THEN /\ last' = Invocation("add_swap_contract", NoRoute,
                               "sender lacks the permission add swap", args)
         /\ UNCHANGED << contract_state, pending, calls, grants, received, failed, registered >>
    ELSE /\ swap_contracts' = Append(swap_contracts,
                                  [swap_address |-> swap_address,
                                   token_a_address |-> token_a_address,
                                   token_b_address |-> token_b_address])
         /\ active_routes' =
                [ r \in DOMAIN active_routes |->
                    [ active_routes[r] EXCEPT !.locks_wanted =
                        [ i \in 1..Len(@) |-> Rewritten(@[i]) ] ] ]
         /\ last' = Invocation("add_swap_contract", NoRoute, "none", args)
         /\ UNCHANGED << permission_add_swap, next_route_id,
                         pending, calls, grants, received, failed, registered >>

add_swap_contract(sender, swap_address, token_a_address, token_b_address) ==
    LET args == << sender, swap_address, token_a_address, token_b_address >> IN
    IF ~assert_permission_for(permission_add_swap, sender)
    THEN /\ last' = Invocation("add_swap_contract", NoRoute,
                               "sender lacks the permission add swap", args)
         /\ UNCHANGED << contract_state, pending, calls, grants, received, failed, registered >>
    ELSE /\ swap_contracts' = Append(swap_contracts,
                                  [swap_address |-> swap_address,
                                   token_a_address |-> token_a_address,
                                   token_b_address |-> token_b_address])
         /\ last' = Invocation("add_swap_contract", NoRoute, "none", args)
         /\ UNCHANGED << permission_add_swap, next_route_id, active_routes,
                         pending, calls, grants, received, failed, registered >>

(***************************************************************************)
(* Callbacks.  p is the continuation the host dispatches, success the      *)
(* completion it reports (callback_context.success).                       *)
(***************************************************************************)
\* start_lock_chain_callback without its check of callback_context.success.
start_lock_chain_callback_unchecked(p, success) ==
    LET route_id == p.args[1] IN
    /\ p.cb = "start_lock_chain_callback"
    /\ Reported(p, success)
    /\ UNCHANGED << grants, received >>
    /\ IF route_id \notin DOMAIN active_routes
       THEN Panic(p, p.cb, route_id, "unwrap on None: no such route")
       ELSE LET route == active_routes[route_id] IN
            IF route.locks_wanted = <<>>
            THEN Panic(p, p.cb, route_id, "unwrap on None: no wanted lock")
            ELSE LET batch == build_acquire_lock_events(Front(route.locks_wanted)) IN
                 Return(p, p.cb, route_id, active_routes, batch,
                        { Continuation("lock_route_callback", <<route_id>>, batch, route_id) })

\* start_lock_chain_callback that takes the first wanted lock off the queue
\* (pop_next_wanted_lock in place of peek_next_wanted_lock).
start_lock_chain_callback_popping(p, success) ==
    LET route_id == p.args[1] IN
    /\ p.cb = "start_lock_chain_callback"
    /\ Reported(p, success)
    /\ UNCHANGED << grants, received >>
    /\ IF ~success
       THEN Panic(p, p.cb, route_id, "Could not take control of tokens")
       ELSE IF route_id \notin DOMAIN active_routes
       THEN Panic(p, p.cb, route_id, "unwrap on None: no such route")
       ELSE LET route == active_routes[route_id] IN
            IF route.locks_wanted = <<>>
            THEN Panic(p, p.cb, route_id, "unwrap on None: no wanted lock")
            ELSE LET batch == build_acquire_lock_events(Front(route.locks_wanted)) IN
                 Return(p, p.cb, route_id,
                        modify_route(active_routes, route_id, pop_next_wanted_lock(route)),
                        batch,
                        { Continuation("lock_route_callback", <<route_id>>, batch, route_id) })

start_lock_chain_callback(p, success) ==
    LET route_id == p.args[1] IN
    /\ p.cb = "start_lock_chain_callback"
    /\ Reported(p, success)
    /\ UNCHANGED << grants, received >>
    /\ IF ~success
       THEN Panic(p, p.cb, route_id, "Could not take control of tokens")
       ELSE IF route_id \notin DOMAIN active_routes
       THEN Panic(p, p.cb, route_id, "unwrap on None: no such route")
       ELSE LET route == active_routes[route_id] IN
            IF route.locks_wanted = <<>>
            THEN Panic(p, p.cb, route_id, "unwrap on None: no wanted lock")
            ELSE LET batch == build_acquire_lock_events(Front(route.locks_wanted)) IN
                 Return(p, p.cb, route_id, active_routes, batch,
                        { Continuation("lock_route_callback", <<route_id>>, batch, route_id) })

\* lock_route_callback that has the answer to the compensation batch handled
\* by execute_route_callback.
lock_route_callback_executing_after_compensation(p, success, data) ==
    LET route_id == p.args[1] IN
    /\ p.cb = "lock_route_callback"
    /\ Reported(p, success)
    /\ grants' = IF success /\ p.origin \in DOMAIN grants
                 THEN [grants EXCEPT ![p.origin] = Append(@, data)]
                 ELSE grants
    /\ UNCHANGED received
    /\ IF route_id \notin DOMAIN active_routes
       THEN Panic(p, p.cb, route_id, "unwrap on None: no such route")
       ELSE LET route_information == active_routes[route_id] IN
            IF ~success
            THEN \* We couldn't acquire a lock. Cleanup and throw error.
                 LET batch == build_events_cancel_route(route_information) IN
                 Return(p, p.cb, route_id,
                        modify_route(active_routes, route_id, route_information), batch,
                        { Continuation("execute_route_callback",
                                       <<route_id, route_information.initial_amount_in>>,
                                       batch, route_id) })
            ELSE IF route_information.locks_wanted = <<>>
            THEN Panic(p, p.cb, route_id, "unwrap on None: no wanted lock")
            ELSE LET wanted_lock_for_acquired == Front(route_information.locks_wanted)
                     updated ==
                         update_next_pending_lock_id(
                             update_next_wanted_lock_amount_in(
                                 pop_next_wanted_lock(route_information), data.amount_out),
                             wanted_lock_for_acquired.swap_info, data.lock_id)
                     batch ==
                         IF updated.locks_wanted # <<>>
                         THEN build_acquire_lock_events(Front(updated.locks_wanted))
                         ELSE build_max_approve_event_for_execute(
                                  Front(updated.locks_waiting_for_execution))
                     cont ==
                         IF updated.locks_wanted # <<>>
                         THEN Continuation("lock_route_callback", <<route_id>>, batch, route_id)
                         ELSE Continuation("approve_callback",
                                           <<route_id, updated.initial_amount_in>>,
                                           batch, route_id)
                 IN  Return(p, p.cb, route_id,
                            modify_route(active_routes, route_id, updated), batch, {cont})

\* data = [amount_out, lock_id]: the AcquiredLiquidityLockInformation a granted
\* acquisition returns (read only when success).
lock_route_callback(p, success, data) ==
    LET route_id == p.args[1] IN
    /\ p.cb = "lock_route_callback"
    /\ Reported(p, success)
    /\ grants' = IF success /\ p.origin \in DOMAIN grants
                 THEN [grants EXCEPT ![p.origin] = Append(@, data)]
                 ELSE grants
    /\ UNCHANGED received
    /\ IF route_id \notin DOMAIN active_routes
       THEN Panic(p, p.cb, route_id, "unwrap on None: no such route")
       ELSE LET route_information == active_routes[route_id] IN
            IF ~success
            THEN \* We couldn't acquire a lock. Cleanup and throw error.
                 LET batch == build_events_cancel_route(route_information) IN
                 Return(p, p.cb, route_id,
                        modify_route(active_routes, route_id, route_information), batch,
                        { Continuation("could_not_acquire_lock_error", <<>>, batch, route_id) })
            ELSE IF route_information.locks_wanted = <<>>
            THEN Panic(p, p.cb, route_id, "unwrap on None: no wanted lock")
            ELSE LET wanted_lock_for_acquired == Front(route_information.locks_wanted)
                     updated ==
                         update_next_pending_lock_id(
                             update_next_wanted_lock_amount_in(
                                 pop_next_wanted_lock(route_information), data.amount_out),
                             wanted_lock_for_acquired.swap_info, data.lock_id)
                     batch ==
                         IF updated.locks_wanted # <<>>
                         THEN build_acquire_lock_events(Front(updated.locks_wanted))
                         ELSE build_max_approve_event_for_execute(
                                  Front(updated.locks_waiting_for_execution))
                     cont ==
                         IF updated.locks_wanted # <<>>
                         THEN Continuation("lock_route_callback", <<route_id>>, batch, route_id)
                         ELSE Continuation("approve_callback",
                                           <<route_id, updated.initial_amount_in>>,
                                           batch, route_id)
                 IN  Return(p, p.cb, route_id,
                            modify_route(active_routes, route_id, updated), batch, {cont})

\* execute_route_callback that ends the saga after the first executed lock
\* whatever is left to execute.
execute_route_callback_after_first_lock(p, success) ==
    LET route_id == p.args[1] IN
    /\ p.cb = "execute_route_callback"
    /\ Reported(p, success)
    /\ UNCHANGED << grants, received >>
    /\ IF route_id \notin DOMAIN active_routes
       THEN Panic(p, p.cb, route_id, "unwrap on None: no such route")
       ELSE LET route_information == active_routes[route_id] IN
            Return(p, p.cb, route_id,
                   modify_route(active_routes, route_id, route_information),
                   build_final_transfer(route_information),
                   {})

\* execute_route_callback that attaches itself as continuation to the final
\* transfer.
execute_route_callback_awaiting_final_transfer(p, success) ==
    LET route_id == p.args[1]
        last_output == p.args[2]
    IN
    /\ p.cb = "execute_route_callback"
    /\ Reported(p, success)
    /\ UNCHANGED << grants, received >>
    /\ IF route_id \notin DOMAIN active_routes
       THEN Panic(p, p.cb, route_id, "unwrap on None: no such route")
       ELSE LET route_information == active_routes[route_id] IN
            IF route_information.locks_waiting_for_execution # <<>>
            THEN LET batch == build_max_approve_event_for_execute(
                                  Front(route_information.locks_waiting_for_execution))
                 IN  Return(p, p.cb, route_id,
                            modify_route(active_routes, route_id, route_information), batch,
                            { Continuation("approve_callback", <<route_id, last_output>>,
                                           batch, route_id) })
            ELSE \* We finished executing the locks: transfer to the original user.
                 Return(p, p.cb, route_id,
                        modify_route(active_routes, route_id, route_information),
                        build_final_transfer(route_information),
                        { Continuation("execute_route_callback", <<route_id, last_output>>,
                                       build_final_transfer(route_information), route_id) })

execute_route_callback(p, success) ==
    LET route_id == p.args[1]
        last_output == p.args[2]
    IN
    /\ p.cb = "execute_route_callback"
    /\ Reported(p, success)
    /\ UNCHANGED << grants, received >>
    /\ IF route_id \notin DOMAIN active_routes
       THEN Panic(p, p.cb, route_id, "unwrap on None: no such route")
       ELSE LET route_information == active_routes[route_id] IN
            IF route_information.locks_waiting_for_execution # <<>>
            THEN LET batch == build_max_approve_event_for_execute(
                                  Front(route_information.locks_waiting_for_execution))
                 IN  Return(p, p.cb, route_id,
                            modify_route(active_routes, route_id, route_information), batch,
                            { Continuation("approve_callback", <<route_id, last_output>>,
                                           batch, route_id) })
            ELSE \* We finished executing the locks: transfer to the original user.
                 Return(p, p.cb, route_id,
                        modify_route(active_routes, route_id, route_information),
                        build_final_transfer(route_information),
                        {})

\* approve_callback that returns without events when the route has no record.
approve_callback_tolerating_missing_route(p, success) ==
    LET route_id == p.args[1]
        last_output == p.args[2]
    IN
    /\ p.cb = "approve_callback"
    /\ Reported(p, success)
    /\ UNCHANGED << grants, received >>
    /\ IF route_id \notin DOMAIN active_routes
       THEN Return(p, p.cb, route_id, active_routes, <<>>, {})
       ELSE LET route_information == active_routes[route_id] IN
            IF route_information.locks_waiting_for_execution = <<>>
            THEN Panic(p, p.cb, route_id, "unwrap on None: no pending lock")
            ELSE LET pending_lock == Front(route_information.locks_waiting_for_execution)
                     batch == << deposit(pending_lock.swap_info.swap_address,
                                         pending_lock.swap_info.token_in, last_output) >>
                 IN  Return(p, p.cb, route_id,
                            modify_route(active_routes, route_id, route_information), batch,
                            { Continuation("deposit_callback", <<route_id>>, batch, route_id) })

approve_callback(p, success) ==
    LET route_id == p.args[1]
        last_output == p.args[2]
    IN
    /\ p.cb = "approve_callback"
    /\ Reported(p, success)
    /\ UNCHANGED << grants, received >>
    /\ IF route_id \notin DOMAIN active_routes
       THEN Panic(p, p.cb, route_id, "unwrap on None: no such route")
       ELSE LET route_information == active_routes[route_id] IN
            IF route_information.locks_waiting_for_execution = <<>>
            THEN Panic(p, p.cb, route_id, "unwrap on None: no pending lock")
            ELSE LET pending_lock == Front(route_information.locks_waiting_for_execution)
                     batch == << deposit(pending_lock.swap_info.swap_address,
                                         pending_lock.swap_info.token_in, last_output) >>
                 IN  Return(p, p.cb, route_id,
                            modify_route(active_routes, route_id, route_information), batch,
                            { Continuation("deposit_callback", <<route_id>>, batch, route_id) })

deposit_callback(p, success) ==
    LET route_id == p.args[1] IN
    /\ p.cb = "deposit_callback"
    /\ Reported(p, success)
    /\ UNCHANGED << grants, received >>
    /\ IF route_id \notin DOMAIN active_routes
       THEN Panic(p, p.cb, route_id, "unwrap on None: no such route")
       ELSE LET route_information == active_routes[route_id] IN
            IF route_information.locks_waiting_for_execution = <<>>
            THEN Panic(p, p.cb, route_id, "unwrap on None: no pending lock")
            ELSE LET pending_lock == Front(route_information.locks_waiting_for_execution)
                     batch == << execute_lock_swap(pending_lock.swap_info.swap_address,
                                                   pending_lock.lock_id) >>
                     pending_withdraw ==
                         [swap_address |-> pending_lock.swap_info.swap_address,
                          withdraw_token |-> pending_lock.swap_info.token_out]
                     updated == update_pending_withdraw(
                                    take_next_pending_lock(route_information),
                                    pending_withdraw)
                 IN  Return(p, p.cb, route_id,
                            modify_route(active_routes, route_id, updated), batch,
                            { Continuation("receive_output_amount_callback", <<route_id>>,
                                           batch, route_id) })

\* received_amount is the return data of the executed lock; a failed execution
\* carries no return data, and reading it panics.
receive_output_amount_callback(p, success, received_amount) ==
    LET route_id == p.args[1] IN
    /\ p.cb = "receive_output_amount_callback"
    /\ Reported(p, success)
    /\ received' = IF success /\ p.origin \in DOMAIN received
                   THEN [received EXCEPT ![p.origin] = Append(@, received_amount)]
                   ELSE received
    /\ UNCHANGED grants
    /\ IF ~success
       THEN Panic(p, p.cb, route_id, "get_return_data: no return data")
       ELSE IF route_id \notin DOMAIN active_routes
       THEN Panic(p, p.cb, route_id, "unwrap on None: no such route")
       ELSE LET route_information == active_routes[route_id] IN
            IF route_information.pending_withdraw = <<>>
            THEN Panic(p, p.cb, route_id, "unwrap on None: no pending withdraw")
            ELSE LET pending_withdraw == Front(route_information.pending_withdraw)
                     updated == take_pending_withdraw(
                                    update_final_amount_out(route_information,
                                                            received_amount))
                     batch == << withdraw(pending_withdraw.swap_address,
                                          pending_withdraw.withdraw_token,
                                          received_amount, TRUE) >>
                 IN  Return(p, p.cb, route_id,
                            modify_route(active_routes, route_id, updated), batch,
                            { Continuation("execute_route_callback",
                                           <<route_id, received_amount>>, batch, route_id) })

could_not_acquire_lock_error(p, success) ==
    /\ p.cb = "could_not_acquire_lock_error"
    /\ Reported(p, success)
    /\ UNCHANGED << grants, received >>
    /\ Panic(p, p.cb, NoRoute, "Could not acquire all locks in route")

(***************************************************************************)
(* The state after initialize, and the steps.                              *)
(***************************************************************************)
Init ==
    /\ permission_add_swap = Admins
    /\ swap_contracts = InitialSwapContracts
    /\ next_route_id = 0
    /\ active_routes = << >>
    /\ pending = {}
    /\ calls = << >>
    /\ grants = << >>
    /\ received = << >>
    /\ failed = << >>
    /\ registered = << >>
    /\ last = Invocation("initialize", NoRoute, "none", <<>>)

\* The route_swap calls submitted in Spec, each <<sender, swap_route, token_in,
\* token_out, amount_in, amount_out_minimum>>: routes of one, two and three
\* hops that validate, and one call for each way validation rejects a route.
RouteRequests ==
    { << "bob",   <<"P2">>,             "B", "C", 50,  100 >>,
      << "alice", <<"P1", "P2">>,       "A", "C", 100, 100 >>,
      << "alice", <<"P1", "P2", "P2">>, "A", "B", 100, 100 >>,
      << "bob",   <<>>,                 "A", "C", 100, 100 >>,
      << "bob",   <<"P9">>,             "A", "C", 100, 100 >>,
      << "bob",   <<"P2">>,             "A", "C", 100, 100 >>,
      << "bob",   <<"P1">>,             "A", "C", 100, 100 >>,
      << "bob",   <<"P1", "P1", "P1", "P1", "P1", "P1">>, "A", "A", 100, 100 >> }
\* The add_swap_contract calls submitted in Spec, each <<sender, swap_address,
\* token_a_address, token_b_address>>.
AddRequests ==
    { << "admin", "P1", "C", "A" >>, << "alice", "P1", "C", "A" >> }

RECURSIVE SumHops(_)
SumHops(S) ==
    IF S = {} THEN 0
    ELSE LET x == CHOOSE y \in S : TRUE IN Len(registered[x].hops) + SumHops(S \ {x})
TotalHops == SumHops(DOMAIN registered)

\* The model registers a route only while the hop budget lasts; a call that
\* validation rejects registers nothing.
WithinHopBudget(swap_route, token_in, token_out) ==
    \/ swap_route = <<>>
    \/ validate_route_and_add_info(swap_route, swap_contracts, token_in, token_out).err
           # "none"
    \/ TotalHops + Len(swap_route) <= MaxTotalHops

RouteSwap ==
    /\ next_route_id < MaxRoutes
    /\ \E r \in RouteRequests :
           /\ WithinHopBudget(r[2], r[3], r[4])
           /\ route_swap(r[1], r[2], r[3], r[4], r[5], r[6])

AddSwapContract ==
    /\ Len(swap_contracts) < Len(InitialSwapContracts) + MaxAdds
    /\ \E r \in AddRequests : add_swap_contract(r[1], r[2], r[3], r[4])

StartLockChain ==
    \E p \in pending, success \in BOOLEAN : start_lock_chain_callback(p, success)

LockRoute ==
    \E p \in pending :
        /\ p.cb = "lock_route_callback"
        /\ \/ \E amount_out \in QuotesFor(Back(p.batch)) :
                  lock_route_callback(p, TRUE,
                      [amount_out |-> amount_out, lock_id |-> FreshLockId(p.origin)])
           \/ lock_route_callback(p, FALSE, [amount_out |-> 0, lock_id |-> 0])

ExecuteRoute ==
    \E p \in pending, success \in BOOLEAN : execute_route_callback(p, success)

Approve ==
    \E p \in pending, success \in BOOLEAN : approve_callback(p, success)

Deposit ==
    \E p \in pending, success \in BOOLEAN : deposit_callback(p, success)

ReceiveOutputAmount ==
    \E p \in pending :
        \/ \E received_amount \in PoolAmounts :
               receive_output_amount_callback(p, TRUE, received_amount)
        \/ receive_output_amount_callback(p, FALSE, 0)

CouldNotAcquireLockError ==
    \E p \in pending, success \in BOOLEAN : could_not_acquire_lock_error(p, success)

Next ==
    \/ RouteSwap
    \/ AddSwapContract
    \/ StartLockChain
    \/ LockRoute
    \/ ExecuteRoute
    \/ Approve
    \/ Deposit
    \/ ReceiveOutputAmount
    \/ CouldNotAcquireLockError

Spec == Init /\ [][Next]_vars


(***************************************************************************)
(* SpecValidate: one route_swap per behaviour, applied to every swap route  *)
(* of up to MaxInputLen pool addresses and every pair of tokens, with the  *)
(* registry as constructed or extended by up to MaxAdds descriptors.       *)
(***************************************************************************)
AllSwapRoutes == UNION { [1..n -> PoolAddrs] : n \in 0..MaxInputLen }
ValidateAddRequests ==
    { << "admin", "P9", "C", "A" >>, << "admin", "P1", "C", "A" >> }

RouteSwapAny ==
    /\ last.op # "route_swap"
    /\ \E swap_route \in AllSwapRoutes, token_in \in Tokens, token_out \in Tokens :
           route_swap("alice", swap_route, token_in, token_out, 100, 100)

AddSwapContractAny ==
    /\ last.op # "route_swap"
    /\ Len(swap_contracts) < Len(InitialSwapContracts) + MaxAdds
    /\ \E r \in ValidateAddRequests : add_swap_contract(r[1], r[2], r[3], r[4])

NextValidate == RouteSwapAny \/ AddSwapContractAny

SpecValidate == Init /\ [][NextValidate]_vars

(***************************************************************************)
(* Reading the history.                                                    *)
(***************************************************************************)
Routes == DOMAIN registered

\* The calls of route r with this name, in the order they were issued.
CallsNamed(r, name) ==
    LET Test(e) == e.call.name = name
        es == SelectSeq(calls[r], Test)
    IN  [ i \in 1..Len(es) |-> es[i].call ]

\* The transfers of route r issued by this handler.
TransfersBy(r, op) ==
    LET Test(e) == e.call.name = "transfer" /\ e.by = op
        es == SelectSeq(calls[r], Test)
    IN  [ i \in 1..Len(es) |-> es[i].call ]

FinalTransfers(r) == TransfersBy(r, "execute_route_callback")
Refunds(r) == TransfersBy(r, "lock_route_callback")

\* No continuation of route r is left to dispatch.
AtRest(r) == \A p \in pending : p.origin # r

\* What route_swap was called with for route r.
SenderOf(r) == registered[r].args[1]
TokenInOf(r) == registered[r].args[3]
TokenOutOf(r) == registered[r].args[4]
AmountInOf(r) == registered[r].args[5]
AmountOutMinimumOf(r) == registered[r].args[6]
HopsOf(r) == registered[r].hops

\* Every pool granted its lock of route r only with an output of at least the
\* requested minimum, and every executed lock returned the output it was
\* granted with.
LocksHonoured(r) ==
    LET acquires == CallsNamed(r, "acquire_swap_lock") IN
    /\ Len(received[r]) <= Len(grants[r])
    /\ Len(grants[r]) <= Len(acquires)
    /\ \A k \in 1..Len(grants[r]) : grants[r][k].amount_out >= acquires[k].args[3]
    /\ \A k \in 1..Len(received[r]) : received[r][k] = grants[r][k].amount_out

(***************************************************************************)
(* C1: whenever a route issues its final transfer to the user, the amount  *)
(* transferred is at least the amount_out_minimum given to route_swap,     *)
(* provided the pools granted their locks at or above the requested        *)
(* minimum and the executions returned the locked output.                  *)
(***************************************************************************)
C1_FinalTransferAtLeastMinimum ==
    \A r \in Routes :
        LET finals == FinalTransfers(r) IN
        \A i \in 1..Len(finals) :
            LocksHonoured(r) => finals[i].args[2] >= AmountOutMinimumOf(r)

C1_Witness ==
    \E r \in Routes :
        /\ Len(HopsOf(r)) = 2
        /\ Len(FinalTransfers(r)) = 1
        /\ LocksHonoured(r)
        /\ grants[r][1].amount_out < AmountOutMinimumOf(r)

(***************************************************************************)
(* C2: for a route whose custody transfer succeeded, a failure reported by *)
(* any later call of the saga leads to a cancel_lock for every lock still  *)
(* reserved and to a refund of the whole amount_in, in the input token, to *)
(* the user; a route whose custody transfer failed moves no funds.  The    *)
(* statement is read once the route has come to rest.                      *)
(***************************************************************************)
C2_FailureCompensated ==
    \A r \in Routes :
        /\ (failed[r] \in {"acquisition", "execution"} /\ AtRest(r)) =>
               /\ Refunds(r) = << transfer(TokenInOf(r), SenderOf(r), AmountInOf(r)) >>
               /\ \A k \in 1..Len(grants[r]) :
                      k > Len(CallsNamed(r, "execute_lock_swap")) =>
                          \E i \in 1..Len(CallsNamed(r, "cancel_lock")) :
                              CallsNamed(r, "cancel_lock")[i] =
                                  cancel_lock(HopsOf(r)[k].swap_address,
                                              grants[r][k].lock_id)
        /\ failed[r] = "custody" =>
               \A i \in 1..Len(calls[r]) : calls[r][i].call.name = "transfer_from"

(***************************************************************************)
(* C3: when the acquisition of hop k reports failure, lock_route_callback  *)
(* issues one batch: a cancel_lock for each of the k-1 acquired locks, to  *)
(* the lock's pool with the lock's id, in acquisition order, then one      *)
(* transfer of initial_amount_in of initial_token_in to the user; the      *)
(* batch's continuation is could_not_acquire_lock_error, which always      *)
(* fails.                                                                  *)
(***************************************************************************)
CompensationBatch(r) ==
    [ i \in 1..Len(grants[r]) |->
        cancel_lock(HopsOf(r)[i].swap_address, grants[r][i].lock_id) ]
    \o << transfer(TokenInOf(r), SenderOf(r), AmountInOf(r)) >>

C4_CustodyFailureEndsSaga ==
    \A r \in Routes :
        failed[r] = "custody" =>
            /\ calls[r] = Issued("route_swap",
                   << transfer_from(TokenInOf(r), SenderOf(r), ROUTER, AmountInOf(r)) >>)
            /\ active_routes[r] = registered[r].route_information
            /\ AtRest(r)
            /\ (last.op = "start_lock_chain_callback" /\ last.route_id = r) =>
                   last.err = "Could not take control of tokens"

C4_Witness ==
    \E r \in Routes :
        /\ failed[r] = "custody"
        /\ last.op # "start_lock_chain_callback"
        /\ \E q \in Routes : q # r /\ Len(calls[q]) > 1


\* ---------------------------------------------------------------------------
\* Route validation

\* The last invocation was a route_swap that was accepted.
Accepted == last.op = "route_swap" /\ last.err = "none"

\* The descriptor that the registry resolves a pool address to: the first one
\* registered under that address.
DescriptorOf(known, addr) ==
    known[CHOOSE i \in 1..Len(known) :
              /\ known[i].swap_address = addr
              /\ \A j \in 1..(i - 1) : known[j].swap_address # addr]

\* C5: for every pool-address list, registry, token_in and token_out that the
\* validation accepts, the hop list it returns has the length and the pool
\* addresses of the input list in the same order, the first hop takes
\* token_in, the last hop gives token_out, every hop gives the token that the
\* next hop takes, and the two tokens of each hop are exactly the two tokens
\* of the registry descriptor of its pool.
C5_ValidatedHops ==
    Accepted =>
        LET swap_route == last.args[2]
            token_in == last.args[3]
            token_out == last.args[4]
            hops == registered[last.route_id].hops
        IN  /\ Len(hops) = Len(swap_route)
            /\ \A i \in 1..Len(hops) : hops[i].swap_address = swap_route[i]
            /\ hops[1].token_in = token_in
            /\ hops[Len(hops)].token_out = token_out
            /\ \A i \in 1..(Len(hops) - 1) : hops[i].token_out = hops[i + 1].token_in
            /\ \A i \in 1..Len(hops) :
                   LET d == DescriptorOf(swap_contracts, swap_route[i]) IN
                   /\ { hops[i].token_in, hops[i].token_out }
                          = { d.token_a_address, d.token_b_address }
                   /\ << hops[i].token_in, hops[i].token_out >>
                          \in { << d.token_a_address, d.token_b_address >>,
                                << d.token_b_address, d.token_a_address >> }

\* An accepted route of three hops over three pools, one of them added to the
\* registry after construction and one of them entered by its second token.
C5_Witness ==
    /\ Accepted
    /\ last.args[2] = << "P1", "P2", "P9" >>
    /\ registered[last.route_id].hops[3].token_in = "C"
    /\ DescriptorOf(swap_contracts, "P9").token_b_address = "A"
    /\ DescriptorOf(swap_contracts, "P9").token_a_address = "C"

TooLong == "Swap route length is greater than maximum allowed"

ValidationErrors ==
    { "The given route is empty",
      TooLong,
      "Unknown swap address",
      "No tokens at swap contract matches token",
      "The output token from the swap route doesn't match the intended output" }

\* C6: a route_swap call that fails validation (empty route, route too long,
\* unknown pool address, a hop whose pool has neither token equal to the
\* current token, final token different from token_out) leaves the registry,
\* next_route_id and the route store unchanged and issues no external call.
C6_RejectedRouteSwapChangesNothing ==
    [][ (last'.op = "route_swap" /\ last'.err \in ValidationErrors)
            => /\ UNCHANGED << permission_add_swap, swap_contracts,
                               next_route_id, active_routes >>
               /\ UNCHANGED << pending, calls >> ]_vars

\* A route whose last token is not token_out was rejected while another
\* route was in the middle of its saga.
C6_Witness ==
    /\ last.op = "route_swap"
    /\ last.err = "The output token from the swap route doesn't match the intended output"
    /\ next_route_id = 1
    /\ pending # {}
    /\ Len(grants[0]) = 1

\* The step registers a route.
Registers == last'.op = "route_swap" /\ last'.err = "none" /\ registered' # registered

\* A step hands out the next id exactly when it registers a route, and no
\* other step moves next_route_id or the set of ids in the route store.
IdsHandedOutInOrder ==
    /\ Registers =>
           /\ last'.route_id = next_route_id
           /\ last'.route_id = Cardinality(DOMAIN registered)
           /\ last'.route_id \notin DOMAIN active_routes
           /\ next_route_id' = next_route_id + 1
           /\ DOMAIN active_routes' = DOMAIN active_routes \cup { last'.route_id }
    /\ ~Registers =>
           /\ next_route_id' = next_route_id
           /\ DOMAIN active_routes' = DOMAIN active_routes

\* C8: over any sequence of route_swap calls and callbacks the route ids
\* handed out are 0, 1, 2, ... in call order and none is issued twice: a
\* route_swap that fails validation consumes no id, and a route that was
\* registered and later failed keeps its id.
C8_RouteIdsSequential ==
    /\ [](DOMAIN active_routes = 0..(next_route_id - 1))
    /\ [][IdsHandedOutInOrder]_vars

\* The second route was registered under id 1 after route 0 had failed in
\* custody or in compensation and had come to rest.
C8_Witness ==
    /\ last.op = "route_swap"
    /\ last.err = "none"
    /\ last.route_id = 1
    /\ next_route_id = 2
    /\ failed[0] \in { "custody", "acquisition" }
    /\ AtRest(0)


\* ---------------------------------------------------------------------------
\* Completion and registry isolation

\* Route r has completed: the lock of every hop was executed and nothing of
\* the route is left to dispatch.
Completed(r) == Len(received[r]) = Len(HopsOf(r)) /\ AtRest(r)

\* C9: when a route completes, exactly one final transfer is issued, on the
\* ledger of the requested output token, to the address that called
\* route_swap, with the amount that executing the last hop's lock returned;
\* no route is ever sent a second final transfer, and none before its last
\* lock is executed.
C9_OneFinalTransfer ==
    \A r \in Routes :
        LET finals == FinalTransfers(r) IN
        /\ Len(finals) <= 1
        /\ finals # <<>> => Len(received[r]) = Len(HopsOf(r))
        /\ Completed(r) =>
               finals = << transfer(TokenOutOf(r), SenderOf(r), Back(received[r])) >>

\* The route [(P1,A,B),(P2,B,C)] with amount_in 100, both pools realizing
\* 1:1, has completed with a transfer of 100 of token C to its caller.
C9_Witness ==
    \E r \in Routes :
        /\ HopsOf(r) = << [swap_address |-> "P1", token_in |-> "A", token_out |-> "B"],
                          [swap_address |-> "P2", token_in |-> "B", token_out |-> "C"] >>
        /\ AmountInOf(r) = 100
        /\ received[r] = << 100, 100 >>
        /\ Completed(r)
        /\ FinalTransfers(r) = << transfer("C", "alice", 100) >>
        /\ SenderOf(r) = "alice"

\* The k-th call of each kind that a route issues, computed from what the
\* route was registered with and from what the pools answered.
ExpectedAcquire(r, k) ==
    acquire_swap_lock(HopsOf(r)[k].swap_address, HopsOf(r)[k].token_in,
                      IF k = 1 THEN AmountInOf(r) ELSE grants[r][k - 1].amount_out,
                      IF k = Len(HopsOf(r)) THEN AmountOutMinimumOf(r) ELSE 0)
ExpectedApprove(r, k) ==
    approve(HopsOf(r)[k].token_in, HopsOf(r)[k].swap_address, TokenAmountMAX)
ExpectedDeposit(r, k) ==
    deposit(HopsOf(r)[k].swap_address, HopsOf(r)[k].token_in,
            IF k = 1 THEN AmountInOf(r) ELSE received[r][k - 1])
ExpectedExecute(r, k) ==
    execute_lock_swap(HopsOf(r)[k].swap_address, grants[r][k].lock_id)
ExpectedWithdraw(r, k) ==
    withdraw(HopsOf(r)[k].swap_address, HopsOf(r)[k].token_out, received[r][k], TRUE)
ExpectedCancel(r, k) ==
    cancel_lock(HopsOf(r)[k].swap_address, grants[r][k].lock_id)

\* The calls of route r of this name are the expected ones, in hop order.
CallsAsRegistered(r, name, Expected(_, _)) ==
    LET issued == CallsNamed(r, name) IN
    /\ Len(issued) <= Len(HopsOf(r))
    /\ \A k \in 1..Len(issued) : issued[k] = Expected(r, k)

\* The hops the route record still holds (acquired locks, then wanted locks)
\* are the last hops the route was registered with.
StoredHops(r) ==
    [ i \in 1..Len(active_routes[r].locks_waiting_for_execution) |->
        active_routes[r].locks_waiting_for_execution[i].swap_info ]
    \o [ i \in 1..Len(active_routes[r].locks_wanted) |->
           active_routes[r].locks_wanted[i].swap_info ]

StoredHopsAsRegistered(r) ==
    LET stored == StoredHops(r) IN
    /\ Len(stored) <= Len(HopsOf(r))
    /\ stored = SubSeq(HopsOf(r), Len(HopsOf(r)) - Len(stored) + 1, Len(HopsOf(r)))
    /\ active_routes[r].user = SenderOf(r)
    /\ active_routes[r].initial_token_in = HopsOf(r)[1].token_in
    /\ active_routes[r].initial_amount_in = AmountInOf(r)
    /\ active_routes[r].final_token_out = HopsOf(r)[Len(HopsOf(r))].token_out

\* C10: once a route is registered, a later add_swap_contract changes neither
\* the hops the route record holds nor the target, token or amount of any
\* call issued for the route afterwards: whatever the registry has become,
\* the stored hops are the registered ones and every call of the route is the
\* one that the registered hops, the registered amounts and the pools'
\* answers determine.
C10_RegistryIsolation ==
    \A r \in Routes :
        /\ StoredHopsAsRegistered(r)
        /\ CallsNamed(r, "transfer_from")
               = << transfer_from(TokenInOf(r), SenderOf(r), ROUTER, AmountInOf(r)) >>
        /\ CallsAsRegistered(r, "acquire_swap_lock", ExpectedAcquire)
        /\ CallsAsRegistered(r, "approve", ExpectedApprove)
        /\ CallsAsRegistered(r, "deposit", ExpectedDeposit)
        /\ CallsAsRegistered(r, "execute_lock_swap", ExpectedExecute)
        /\ CallsAsRegistered(r, "withdraw", ExpectedWithdraw)
        /\ CallsAsRegistered(r, "cancel_lock", ExpectedCancel)
        /\ LET refunds == Refunds(r) IN
           \A k \in 1..Len(refunds) :
               refunds[k] = transfer(TokenInOf(r), SenderOf(r), AmountInOf(r))
        /\ LET finals == FinalTransfers(r) IN
           \A k \in 1..Len(finals) :
               finals[k] = transfer(TokenOutOf(r), SenderOf(r), Back(received[r]))

\* A descriptor for pool P1 with other tokens was added to the registry while
\* a route through P1 and P2 held its first lock and was waiting for the
\* answer to its second acquire_swap_lock.
C10_Witness ==
    /\ last.op = "add_swap_contract"
    /\ last.err = "none"
    /\ Len(swap_contracts) > Len(InitialSwapContracts)
    /\ \E r \in Routes :
           /\ Len(HopsOf(r)) = 2
           /\ HopsOf(r)[1].swap_address = last.args[2]
           /\ Len(grants[r]) = 1
           /\ \E p \in pending : p.origin = r /\ p.cb = "lock_route_callback"


\* ---------------------------------------------------------------------------
\* The pool registry

\* What a step does to the registry: an add_swap_contract from a sender
\* without the permission changes nothing, a permitted one appends the
\* descriptor it was given and nothing else, any other step leaves the
\* registry as it is.
RegistryStep ==
    IF last'.op = "add_swap_contract"
    THEN IF last'.args[1] \in permission_add_swap
         THEN /\ last'.err = "none"
              /\ Len(swap_contracts') = Len(swap_contracts) + 1
              /\ SubSeq(swap_contracts', 1, Len(swap_contracts)) = swap_contracts
              /\ swap_contracts'[Len(swap_contracts')]
                     = [swap_address |-> last'.args[2],
                        token_a_address |-> last'.args[3],
                        token_b_address |-> last'.args[4]]
              /\ UNCHANGED << permission_add_swap, next_route_id, active_routes,
                              pending, calls >>
         ELSE /\ last'.err # "none"
              /\ UNCHANGED << permission_add_swap, swap_contracts, next_route_id,
                              active_routes, pending, calls >>
    ELSE UNCHANGED << permission_add_swap, swap_contracts >>

\* C11: the pool registry changes only through add_swap_contract: a call from
\* a sender without the add-swap permission fails and leaves the state
\* unchanged, a permitted call appends exactly one descriptor and leaves the
\* route tracker and the existing descriptors unchanged, and route_swap and
\* every callback leave the registry unchanged.
C11_RegistryChangesOnlyByPermittedAdd == [][RegistryStep]_vars

\* A sender without the permission called add_swap_contract while a route
\* was in flight, and the registry is still the constructed one.
C11_Witness ==
    /\ last.op = "add_swap_contract"
    /\ last.err # "none"
    /\ last.args[1] \notin permission_add_swap
    /\ swap_contracts = InitialSwapContracts
    /\ next_route_id = 1
    /\ pending # {}


(***************************************************************************)
(* The gas budget.  GasCost is u64; the costs below stay far from 2^64, so *)
(* the sums are taken over the integers.                                   *)
(***************************************************************************)
INTERNAL_GAS_COST_START_LOCK_CHAIN_CALLBACK == 1500
INTERNAL_GAS_COST_LOCK_ROUTE_CALLBACK == 1500
INTERNAL_GAS_COST_APPROVE_CALLBACK == 1500
INTERNAL_GAS_COST_DEPOSIT_CALLBACK == 1500
INTERNAL_GAS_COST_RECEIVE_OUTPUT_AMOUNT_CALLBACK == 1500
INTERNAL_GAS_COST_EXECUTE_ROUTE_CALLBACK == 1500
INTERNAL_GAS_COST_CANCEL_LOCK_ERROR_CALLBACK == 1500

\* The costs that the interaction modules declare for the calls to the token
\* and the pool contracts (SwapLockContract::GAS_COST_ACQUIRE_SWAP_LOCK, ...):
\* every assignment of these values to the seven constants.
GasCostValues == { 0, 1000, 13000, 30000 }
GasCosts ==
    [ GAS_COST_ACQUIRE_SWAP_LOCK : GasCostValues,
      GAS_COST_CANCEL_LOCK : GasCostValues,
      GAS_COST_EXECUTE_LOCK : GasCostValues,
      GAS_COST_APPROVE : GasCostValues,
      GAS_COST_TRANSFER : GasCostValues,
      GAS_COST_DEPOSIT : GasCostValues,
      GAS_COST_WITHDRAW : GasCostValues ]

max(a, b) == IF a >= b THEN a ELSE b
min(a, b) == IF a <= b THEN a ELSE b

\* calculate_min_total_gas_cost taking the smaller of its two totals.
calculate_min_total_gas_cost_of_cheaper_path(gas, number_of_swaps) ==
    LET acquire_lock_cost ==
            gas.GAS_COST_ACQUIRE_SWAP_LOCK + INTERNAL_GAS_COST_LOCK_ROUTE_CALLBACK
        cancel_locks_cost ==
            (number_of_swaps + 1) * gas.GAS_COST_CANCEL_LOCK
                + INTERNAL_GAS_COST_CANCEL_LOCK_ERROR_CALLBACK
        execute_lock_cost ==
            gas.GAS_COST_APPROVE + INTERNAL_GAS_COST_APPROVE_CALLBACK
                + gas.GAS_COST_DEPOSIT + INTERNAL_GAS_COST_DEPOSIT_CALLBACK
                + gas.GAS_COST_EXECUTE_LOCK + INTERNAL_GAS_COST_RECEIVE_OUTPUT_AMOUNT_CALLBACK
                + gas.GAS_COST_WITHDRAW + INTERNAL_GAS_COST_EXECUTE_ROUTE_CALLBACK
        total_acquire_cost ==
            INTERNAL_GAS_COST_START_LOCK_CHAIN_CALLBACK
                + (number_of_swaps + 1) * acquire_lock_cost
        total_execute_cost ==
            number_of_swaps * execute_lock_cost + gas.GAS_COST_TRANSFER
    IN  min(total_acquire_cost + total_execute_cost,
            total_acquire_cost + cancel_locks_cost)

\* calculate_min_total_gas_cost sized for the longest route whatever the
\* number of swaps.
calculate_min_total_gas_cost_of_longest_route(gas, number_of_swaps) ==
    LET n == MAX_ROUTE_LENGTH + 1
        acquire_lock_cost ==
            gas.GAS_COST_ACQUIRE_SWAP_LOCK + INTERNAL_GAS_COST_LOCK_ROUTE_CALLBACK
        cancel_locks_cost ==
            (n + 1) * gas.GAS_COST_CANCEL_LOCK + INTERNAL_GAS_COST_CANCEL_LOCK_ERROR_CALLBACK
        execute_lock_cost ==
            gas.GAS_COST_APPROVE + INTERNAL_GAS_COST_APPROVE_CALLBACK
                + gas.GAS_COST_DEPOSIT + INTERNAL_GAS_COST_DEPOSIT_CALLBACK
                + gas.GAS_COST_EXECUTE_LOCK + INTERNAL_GAS_COST_RECEIVE_OUTPUT_AMOUNT_CALLBACK
                + gas.GAS_COST_WITHDRAW + INTERNAL_GAS_COST_EXECUTE_ROUTE_CALLBACK
        total_acquire_cost ==
            INTERNAL_GAS_COST_START_LOCK_CHAIN_CALLBACK + (n + 1) * acquire_lock_cost
        total_execute_cost == n * execute_lock_cost + gas.GAS_COST_TRANSFER
    IN  max(total_acquire_cost + total_execute_cost,
            total_acquire_cost + cancel_locks_cost)

calculate_min_total_gas_cost(gas, number_of_swaps) ==
    LET acquire_lock_cost ==
            gas.GAS_COST_ACQUIRE_SWAP_LOCK + INTERNAL_GAS_COST_LOCK_ROUTE_CALLBACK
        cancel_locks_cost ==
            (number_of_swaps + 1) * gas.GAS_COST_CANCEL_LOCK
                + INTERNAL_GAS_COST_CANCEL_LOCK_ERROR_CALLBACK
        execute_lock_cost ==
            \* approve at the token, deposit into the swap, execute the lock,
            \* withdraw the tokens
            gas.GAS_COST_APPROVE + INTERNAL_GAS_COST_APPROVE_CALLBACK
                + gas.GAS_COST_DEPOSIT + INTERNAL_GAS_COST_DEPOSIT_CALLBACK
                + gas.GAS_COST_EXECUTE_LOCK + INTERNAL_GAS_COST_RECEIVE_OUTPUT_AMOUNT_CALLBACK
                + gas.GAS_COST_WITHDRAW + INTERNAL_GAS_COST_EXECUTE_ROUTE_CALLBACK
        total_acquire_cost ==
            INTERNAL_GAS_COST_START_LOCK_CHAIN_CALLBACK
                + (number_of_swaps + 1) * acquire_lock_cost
        total_execute_cost ==
            number_of_swaps * execute_lock_cost + gas.GAS_COST_TRANSFER
    IN  \* We either pay for execution, or cancelling locks, but never both.
        max(total_acquire_cost + total_execute_cost,
            total_acquire_cost + cancel_locks_cost)

\* route_swap computing the cost it attaches to the custody transfer's
\* continuation, for a validated route of route_length pools.
total_cost(gas, route_length) ==
    /\ last' = Invocation("calculate_min_total_gas_cost", NoRoute, "none",
                          << route_length, gas,
                             calculate_min_total_gas_cost(gas, route_length) >>)
    /\ UNCHANGED << contract_state, pending, calls, grants, received, failed, registered >>

\* One budget per behaviour, for every assignment of costs and every length
\* of a validated route.
TotalCost ==
    /\ last.op # "calculate_min_total_gas_cost"
    /\ \E gas \in GasCosts, route_length \in 1..MAX_ROUTE_LENGTH :
           total_cost(gas, route_length)

NextGas == TotalCost

SpecGas == Init /\ [][NextGas]_vars


\* The last invocation computed a budget: for this many hops, with these
\* costs of the external calls, this budget.
Budgeted == last.op = "calculate_min_total_gas_cost"
BudgetedHops == last.args[1]
BudgetedCosts == last.args[2]
Budget == last.args[3]

\* The cost of acquiring one lock and of executing one lock, each call with
\* the callback that continues it.
AcquireCost(gas) == gas.GAS_COST_ACQUIRE_SWAP_LOCK + 1500
ExecuteCost(gas) ==
    (gas.GAS_COST_APPROVE + 1500) + (gas.GAS_COST_DEPOSIT + 1500)
        + (gas.GAS_COST_EXECUTE_LOCK + 1500) + (gas.GAS_COST_WITHDRAW + 1500)

\* (a) the full happy path and (b) the worst-case abort path for n hops.
HappyPathTotal(gas, n) ==
    AcquireCost(gas) * (n + 1) + ExecuteCost(gas) * n + gas.GAS_COST_TRANSFER
AbortPathTotal(gas, n) ==
    AcquireCost(gas) * (n + 1) + gas.GAS_COST_CANCEL_LOCK * (n + 1)

\* C12: for every route length n in 1..5 the budget that route_swap attaches
\* to the custody transfer's continuation is at least max(a, b), with
\* a = acquire cost x (n+1) + (approve + deposit + execute + withdraw cost) x n
\* + one transfer cost and b = acquire cost x (n+1) + cancel cost x (n+1).
C12_BudgetCoversBothTotals ==
    Budgeted =>
        /\ BudgetedHops \in 1..MAX_ROUTE_LENGTH
        /\ Budget >= HappyPathTotal(BudgetedCosts, BudgetedHops)
        /\ Budget >= AbortPathTotal(BudgetedCosts, BudgetedHops)

\* A budget for five hops where the abort path costs more than the happy
\* path.
C12_Witness ==
    /\ Budgeted
    /\ BudgetedHops = MAX_ROUTE_LENGTH
    /\ AbortPathTotal(BudgetedCosts, BudgetedHops)
           > HappyPathTotal(BudgetedCosts, BudgetedHops)

\* The all-cancel path for n hops: the total acquisition cost (the start of
\* the chain and n+1 acquisitions) plus the cancellation cost (n+1
\* cancel_lock calls and the callback that ends the saga).
AllCancelPath(gas, n) ==
    (1500 + (n + 1) * AcquireCost(gas)) + ((n + 1) * gas.GAS_COST_CANCEL_LOCK + 1500)

\* C13: the budget is strictly increasing in the route length: for every n
\* in 1..5 the budget for n+1 hops is strictly greater than the budget for n
\* hops, and the budget for n hops is at least the cost of the all-cancel
\* path for n hops.
C13_BudgetStrictlyIncreasing ==
    Budgeted =>
        /\ Budget = calculate_min_total_gas_cost(BudgetedCosts, BudgetedHops)
        /\ calculate_min_total_gas_cost(BudgetedCosts, BudgetedHops + 1) > Budget
        /\ Budget >= AllCancelPath(BudgetedCosts, BudgetedHops)

\* A budget for five hops, with every external call free of cost, that is
\* larger than the all-cancel path.
C13_Witness ==
    /\ Budgeted
    /\ BudgetedHops = MAX_ROUTE_LENGTH
    /\ \A f \in DOMAIN BudgetedCosts : BudgetedCosts[f] = 0
    /\ Budget > AllCancelPath(BudgetedCosts, BudgetedHops)


\* What the saga issues after custody is taken, call by call and callback by
\* callback.  Happy path of n hops: start_lock_chain_callback, n
\* acquisitions, n rounds of approve, deposit, execute and withdraw, the
\* final transfer.
HappyPathIssued(gas, n) ==
    1500 + n * AcquireCost(gas) + n * ExecuteCost(gas) + gas.GAS_COST_TRANSFER

\* Abort at hop k: start_lock_chain_callback, k acquisitions, k-1 cancel_lock
\* calls, the refund transfer, could_not_acquire_lock_error.
AbortIssued(gas, k) ==
    1500 + k * AcquireCost(gas) + (k - 1) * gas.GAS_COST_CANCEL_LOCK
        + gas.GAS_COST_TRANSFER + 1500

\* C14: for every route length n in 1..5 the budget is at least the summed
\* cost of every external call and callback the saga issues after custody is
\* taken, on the happy path and on an abort at any hop k in 1..n.
C14_BudgetCoversIssuedCalls ==
    Budgeted =>
        /\ Budget >= HappyPathIssued(BudgetedCosts, BudgetedHops)
        /\ \A k \in 1..BudgetedHops : Budget >= AbortIssued(BudgetedCosts, k)

\* The costs under which the refund transfer of an abort is left uncovered:
\* a cancel_lock dearer than the rounds of execution can make up for, and a
\* transfer dearer than one acquisition and two cancel_lock calls.
RefundUncovered(gas, n) ==
    /\ (n - 1) * gas.GAS_COST_CANCEL_LOCK + 1500 > n * ExecuteCost(gas) + AcquireCost(gas)
    /\ gas.GAS_COST_TRANSFER > AcquireCost(gas) + 2 * gas.GAS_COST_CANCEL_LOCK

\* C14, for the costs it depends on: the budget covers the happy path
\* whatever the costs are, and it covers every abort exactly when the costs
\* do not leave the refund uncovered.
C14_BudgetCoversIssuedCallsUnlessRefundUncovered ==
    Budgeted =>
        /\ Budget >= HappyPathIssued(BudgetedCosts, BudgetedHops)
        /\ (\A k \in 1..BudgetedHops : Budget >= AbortIssued(BudgetedCosts, k))
               <=> ~RefundUncovered(BudgetedCosts, BudgetedHops)


\* ---------------------------------------------------------------------------
\* Routes of one hop

\* C15: route_swap fails when the route has length 1 (a single pool
\* address): no route of one hop is registered and no custody transfer is
\* issued for one.
C15_OneHopRouteRejected ==
    /\ (last.op = "route_swap" /\ Len(last.args[2]) = 1) =>
           last.err # "none" /\ last.route_id = NoRoute
    /\ \A r \in Routes :
           Len(registered[r].args[2]) = 1 => CallsNamed(r, "transfer_from") = <<>>


(***************************************************************************)
(* SpecLive: the sagas of the routes that validate, with a host that       *)
(* eventually dispatches every continuation it holds.                      *)
(***************************************************************************)
ValidRouteRequests ==
    { r \in RouteRequests :
        /\ r[2] # <<>>
        /\ validate_route_and_add_info(r[2], InitialSwapContracts, r[3], r[4]).err = "none" }

RouteSwapValid ==
    /\ next_route_id < MaxRoutes
    /\ \E r \in ValidRouteRequests :
           /\ WithinHopBudget(r[2], r[3], r[4])
           /\ route_swap(r[1], r[2], r[3], r[4], r[5], r[6])

Dispatch ==
    \/ StartLockChain
    \/ LockRoute
    \/ ExecuteRoute
    \/ Approve
    \/ Deposit
    \/ ReceiveOutputAmount
    \/ CouldNotAcquireLockError

NextLive ==
    \/ RouteSwapValid
    \/ StartLockChain
    \/ LockRoute
    \/ ExecuteRoute
    \/ Approve
    \/ Deposit
    \/ ReceiveOutputAmount
    \/ CouldNotAcquireLockError

SpecLive == Init /\ [][NextLive]_vars /\ WF_vars(Dispatch)

\* Route r has issued exactly n calls of each kind of its n hops and then
\* its final transfer, and nothing of it is left to dispatch.
RanToCompletion(r) ==
    /\ r \in Routes
    /\ calls[r] # <<>>
    /\ LET n == Len(HopsOf(r)) IN
       /\ Len(CallsNamed(r, "acquire_swap_lock")) = n
       /\ Len(CallsNamed(r, "approve")) = n
       /\ Len(CallsNamed(r, "deposit")) = n
       /\ Len(CallsNamed(r, "execute_lock_swap")) = n
       /\ Len(CallsNamed(r, "withdraw")) = n
    /\ CallsNamed(r, "cancel_lock") = <<>>
    /\ Len(CallsNamed(r, "transfer")) = 1
    /\ Len(FinalTransfers(r)) = 1
    /\ calls[r][Len(calls[r])].call = FinalTransfers(r)[1]
    /\ AtRest(r)

\* C16: for a registered route of n hops, if the custody transfer and every
\* later call succeeds and the host eventually dispatches every
\* continuation, the route eventually issues its final transfer to the user,
\* after exactly n acquire_swap_lock, n approve, n deposit, n
\* execute_lock_swap and n withdraw calls, and then issues no further call.
C16_SuccessfulRouteCompletes ==
    \A r \in 0..(MaxRoutes - 1) :
        /\ (r \in Routes) ~> (RanToCompletion(r) \/ (r \in Routes /\ failed[r] # "none"))
        /\ [](RanToCompletion(r) => [](RanToCompletion(r)))

\* A route of two hops ran to completion without a failure.
C16_Witness ==
    \E r \in Routes :
        /\ Len(HopsOf(r)) = 2
        /\ failed[r] = "none"
        /\ RanToCompletion(r)


(***************************************************************************)
(* C17: routes in flight do not interfere.                                 *)
(***************************************************************************)
CallbackOps ==
    { "start_lock_chain_callback", "lock_route_callback", "execute_route_callback",
      "approve_callback", "deposit_callback", "receive_output_amount_callback",
      "could_not_acquire_lock_error" }

\* A step of a callback of route r leaves the records and the histories of
\* all other routes, the registry and the next route id as they were.
StepIsolated ==
    last'.op \in CallbackOps =>
        /\ swap_contracts' = swap_contracts
        /\ permission_add_swap' = permission_add_swap
        /\ next_route_id' = next_route_id
        /\ DOMAIN active_routes' = DOMAIN active_routes
        /\ \A q \in DOMAIN active_routes \ { last'.route_id } :
               /\ active_routes'[q] = active_routes[q]
               /\ calls'[q] = calls[q]

\* The calls route r issues when it runs alone and the host and the pools
\* give it the answers it has received so far: custody, the acquisitions, then
\* either the compensation or the execution of the hops and the final
\* transfer.
SoloCalls(r) ==
    LET n == Len(HopsOf(r))
        g == Len(grants[r])
        e == Len(received[r])
        acquisitions == [ k \in 1..min(n, g + 1) |-> ExpectedAcquire(r, k) ]
        compensation ==
            [ k \in 1..g |-> ExpectedCancel(r, k) ]
            \o << transfer(TokenInOf(r), SenderOf(r), AmountInOf(r)) >>
        HopCalls(k) ==
            << ExpectedApprove(r, k), ExpectedDeposit(r, k), ExpectedExecute(r, k) >>
            \o (IF k <= e THEN << ExpectedWithdraw(r, k) >> ELSE <<>>)
        RECURSIVE Execution(_)
        Execution(k) ==
            IF k > min(n, e + 1) THEN <<>> ELSE HopCalls(k) \o Execution(k + 1)
        final == IF e = n
                 THEN << transfer(TokenOutOf(r), SenderOf(r), received[r][n]) >>
                 ELSE <<>>
    IN  << transfer_from(TokenInOf(r), SenderOf(r), ROUTER, AmountInOf(r)) >>
        \o acquisitions
        \o (IF failed[r] = "acquisition" THEN compensation
            ELSE IF g = n THEN Execution(1) \o final
            ELSE <<>>)

IssuedAsAlone(r) ==
    LET solo == SoloCalls(r) IN
    /\ Len(calls[r]) <= Len(solo)
    /\ \A i \in 1..Len(calls[r]) : calls[r][i].call = solo[i]

\* C17: a step handler invoked for route r changes only the record stored
\* under r (the records of the other routes, the registry and next_route_id
\* stay as they were), and with several routes in flight the sequence of
\* calls of each route is, in every interleaving, the one the route issues
\* when it runs alone with the same answers.
C17_RoutesDoNotInterfere ==
    /\ [](\A r \in Routes : IssuedAsAlone(r))
    /\ [][StepIsolated]_vars

\* A callback of route 1 has just run while route 0, already past custody,
\* waits for the answer to one of its calls.
C17_Witness ==
    /\ last.op = "lock_route_callback"
    /\ last.route_id = 1
    /\ last.err = "none"
    /\ Routes = {0, 1}
    /\ Len(calls[0]) >= 2
    /\ Len(calls[1]) >= 3
    /\ ~AtRest(0)
    /\ ~AtRest(1)


(***************************************************************************)
(* C18: the execution phase starts only when every lock is acquired.       *)
(***************************************************************************)
ExecutionNames == { "approve", "deposit", "execute_lock_swap", "withdraw" }

\* The positions in the history of route r of the calls with a name in names.
PositionsOf(r, names) == { i \in 1..Len(calls[r]) : calls[r][i].call.name \in names }

\* C18: no approve, deposit, execute_lock_swap or withdraw is issued while
\* the queue of wanted locks is non-empty; the first approve of a route is
\* issued only by the lock_route_callback that handles the successful
\* acquisition of the lock of the last hop; and no acquire_swap_lock is issued
\* after it.
C18_ExecutionAfterAllLocks ==
    \A r \in Routes :
        LET executions == PositionsOf(r, ExecutionNames)
            approves == PositionsOf(r, {"approve"})
            acquires == PositionsOf(r, {"acquire_swap_lock"})
            n == Len(HopsOf(r))
        IN  /\ executions # {} =>
                   /\ active_routes[r].locks_wanted = <<>>
                   /\ Len(grants[r]) = n
            /\ \A i \in approves :
                   (\A j \in approves : i <= j) =>
                       /\ calls[r][i].by = "lock_route_callback"
                       /\ i > 1
                       /\ calls[r][i - 1].call = ExpectedAcquire(r, n)
                       /\ \A j \in executions : i <= j
            /\ \A i \in executions : \A j \in acquires : j < i

\* A route of two hops has issued its first approve.
C18_Witness ==
    \E r \in Routes :
        /\ Len(HopsOf(r)) = 2
        /\ Len(CallsNamed(r, "acquire_swap_lock")) = 2
        /\ Len(CallsNamed(r, "approve")) = 1
        /\ last.op = "lock_route_callback"
        /\ last.route_id = r


(***************************************************************************)
(* C19: the amounts of the acquisitions are chained along the route.       *)
(***************************************************************************)
\* C19: the acquire_swap_lock of the first hop carries the amount_in of
\* route_swap, the one of every later hop carries the amount_out the pool of
\* the hop before granted; each goes to the pool of its hop with the input
\* token of its hop; the requested minimum is 0 except on the last hop, which
\* carries the amount_out_minimum of route_swap.
C19_AcquisitionAmountsChained ==
    \A r \in Routes :
        LET acquires == CallsNamed(r, "acquire_swap_lock")
            hops == HopsOf(r)
        IN  /\ Len(acquires) <= Len(hops)
            /\ Len(acquires) <= Len(grants[r]) + 1
            /\ \A i \in 1..Len(acquires) :
                   /\ acquires[i].to = hops[i].swap_address
                   /\ acquires[i].args[1] = hops[i].token_in
                   /\ acquires[i].args[2] = IF i = 1 THEN AmountInOf(r)
                                           ELSE grants[r][i - 1].amount_out
                   /\ acquires[i].args[3] = IF i = Len(hops) THEN AmountOutMinimumOf(r)
                                           ELSE 0

\* The second acquisition of a two-hop route was issued with the output
\* granted by the first pool, which differs from the amount the route started
\* with.
C19_Witness ==
    \E r \in Routes :
        /\ Len(HopsOf(r)) = 2
        /\ Len(CallsNamed(r, "acquire_swap_lock")) = 2
        /\ grants[r][1].amount_out # AmountInOf(r)
        /\ AmountOutMinimumOf(r) > 0


(***************************************************************************)
(* C20: the order of the calls of the execution phase.                     *)
(***************************************************************************)
ExecutionOrder == << "approve", "deposit", "execute_lock_swap", "withdraw" >>

\* The handler that issues the j-th call of the execution phase: each call is
\* issued by the callback of the call before it, the first approve by the
\* callback of the last acquisition.
IssuerOf(j) ==
    CASE j = 1 -> "lock_route_callback"
      [] j > 1 /\ j % 4 = 1 -> "execute_route_callback"
      [] j % 4 = 2 -> "approve_callback"
      [] j % 4 = 3 -> "deposit_callback"
      [] OTHER -> "receive_output_amount_callback"

\* The pool a call of the execution phase is about.
PoolOf(call) == IF call.name = "approve" THEN call.args[1] ELSE call.to

\* The entries of the history of route r that belong to the execution phase.
ExecutionCalls(r) ==
    LET Test(e) == e.call.name \in ExecutionNames IN SelectSeq(calls[r], Test)

\* C20: during execution the calls of each hop are issued strictly in the
\* order approve, deposit, execute_lock_swap, withdraw, each one only in the
\* continuation of the one before, the hops are processed in route order, and
\* the approve of hop i+1 is issued only in the continuation of the withdraw
\* of hop i.
C20_ExecutionOrder ==
    \A r \in Routes :
        LET es == ExecutionCalls(r)
            first == Len(calls[r]) - Len(es) - Len(FinalTransfers(r))
            hops == HopsOf(r)
        IN  /\ Len(es) <= 4 * Len(hops)
            /\ \A j \in 1..Len(es) :
                   /\ calls[r][first + j] = es[j]
                   /\ es[j].call.name = ExecutionOrder[((j - 1) % 4) + 1]
                   /\ PoolOf(es[j].call) = hops[((j - 1) \div 4) + 1].swap_address
                   /\ es[j].by = IssuerOf(j)
            /\ Len(FinalTransfers(r)) > 0 => Len(es) = 4 * Len(hops)

\* The second hop of a two-hop route was approved in the continuation of
\* the withdraw of the first hop and has been executed and withdrawn.
C20_Witness ==
    \E r \in Routes :
        /\ Len(HopsOf(r)) = 2
        /\ Len(ExecutionCalls(r)) = 8
        /\ ExecutionCalls(r)[5].by = "execute_route_callback"

(***************************************************************************)
(* C21: the amounts of the execution phase are threaded along the route.   *)
(***************************************************************************)
\* C21: the deposit of the first hop is of the initial amount_in in the input
\* token of the first hop; the deposit of every later hop is of the amount
\* execute_lock_swap returned for the hop before, in the input token of its
\* own hop; the withdrawal of a hop is of the amount execute_lock_swap
\* returned for that hop, in the output token of the hop, from its pool.
C21_ExecutionAmountsThreaded ==
    \A r \in Routes :
        LET deposits == CallsNamed(r, "deposit")
            withdraws == CallsNamed(r, "withdraw")
            hops == HopsOf(r)
        IN  /\ Len(deposits) <= Len(hops)
            /\ Len(deposits) <= Len(received[r]) + 1
            /\ Len(withdraws) <= Len(received[r])
            /\ \A i \in 1..Len(deposits) :
                   /\ deposits[i].to = hops[i].swap_address
                   /\ deposits[i].args[1] = hops[i].token_in
                   /\ deposits[i].args[2] = IF i = 1 THEN AmountInOf(r)
                                           ELSE received[r][i - 1]
            /\ \A i \in 1..Len(withdraws) :
                   /\ withdraws[i].to = hops[i].swap_address
                   /\ withdraws[i].args[1] = hops[i].token_out
                   /\ withdraws[i].args[2] = received[r][i]

\* Both hops of a two-hop route were deposited to and withdrawn from, and the
\* first hop returned another amount than the route started with.
C21_Witness ==
    \E r \in Routes :
        /\ Len(HopsOf(r)) = 2
        /\ Len(CallsNamed(r, "deposit")) = 2
        /\ Len(CallsNamed(r, "withdraw")) = 2
        /\ received[r][1] # AmountInOf(r)


(***************************************************************************)
(* C22: the queue of acquired locks.                                       *)
(***************************************************************************)
\* The acquired lock of hop k of route r as the queue holds it.
AcquiredLockOf(r, k) == [swap_info |-> HopsOf(r)[k], lock_id |-> grants[r][k].lock_id]

\* C22: the queue of acquired locks holds the locks in the order they were
\* acquired and is drained only from the front: it holds the locks of the
\* hops not executed yet, in hop order, and the i-th execute_lock_swap of a
\* route is sent to the pool of hop i with exactly the lock id the
\* acquisition of hop i returned.
C22_AcquiredLocksInOrder ==
    \A r \in Routes :
        LET executes == CallsNamed(r, "execute_lock_swap")
            queue == active_routes[r].locks_waiting_for_execution
            g == Len(grants[r])
            e == Len(executes)
        IN  /\ e <= g
            /\ g <= Len(HopsOf(r))
            /\ queue = [ k \in 1..(g - e) |-> AcquiredLockOf(r, e + k) ]
            /\ \A i \in 1..e :
                   /\ executes[i].to = HopsOf(r)[i].swap_address
                   /\ executes[i].args = << grants[r][i].lock_id >>
            /\ \A i, j \in 1..g : i # j => grants[r][i].lock_id # grants[r][j].lock_id

\* A two-hop route has executed the lock of its first hop and still holds the
\* lock of its second hop.
C22_Witness ==
    \E r \in Routes :
        /\ Len(HopsOf(r)) = 2
        /\ Len(grants[r]) = 2
        /\ Len(CallsNamed(r, "execute_lock_swap")) = 1
        /\ Len(active_routes[r].locks_waiting_for_execution) = 1


(***************************************************************************)
(* C23: the record and the call a successful route_swap leaves behind.     *)
(***************************************************************************)
\* C23: immediately after a successful route_swap the record of the new
\* route has the caller as user, one wanted lock per hop in route order, the
\* first with amount_in and all others with 0 as amount, the last with
\* amount_out_minimum and all others with 0 as minimum (the single lock of a
\* one-hop route carries both), no acquired lock and no pending withdraw, and
\* exactly one call has been issued: transfer_from(user, router, amount_in)
\* on the input token, with a continuation that carries the new route id.
C23_RecordAfterRouteSwap ==
    (last.op = "route_swap" /\ last.err = "none") =>
        LET r == last.route_id
            user == last.args[1]
            swap_route == last.args[2]
            token_in == last.args[3]
            amount_in == last.args[5]
            amount_out_minimum == last.args[6]
            n == Len(swap_route)
            custody == transfer_from(token_in, user, ROUTER, amount_in)
        IN  /\ r \in DOMAIN active_routes
            /\ active_routes[r].user = user
            /\ Len(active_routes[r].locks_wanted) = n
            /\ \A i \in 1..n :
                   LET lock == active_routes[r].locks_wanted[i] IN
                   /\ lock.swap_info.swap_address = swap_route[i]
                   /\ lock.swap_info = HopsOf(r)[i]
                   /\ lock.amount_in = IF i = 1 THEN amount_in ELSE 0
                   /\ lock.amount_out_minimum = IF i = n THEN amount_out_minimum ELSE 0
            /\ active_routes[r].locks_waiting_for_execution = <<>>
            /\ active_routes[r].pending_withdraw = <<>>
            /\ calls[r] = << [by |-> "route_swap", call |-> custody] >>
            /\ { p \in pending : p.origin = r \/ r \in { p.args[i] : i \in DOMAIN p.args } }
                   = { Continuation("start_lock_chain_callback", <<r>>, <<custody>>, r) }

\* A route of one hop, whose single wanted lock carries both the amount and
\* the minimum, has just been registered while another route was in flight.
C23_Witness ==
    /\ last.op = "route_swap"
    /\ last.err = "none"
    /\ last.route_id = 1
    /\ Len(last.args[2]) = 1
    /\ last.args[5] > 0
    /\ last.args[6] > 0
    /\ pending # {}


(***************************************************************************)
(* C24: the start of the lock chain.                                       *)
(***************************************************************************)
\* The first acquisition of route r is in flight: start_lock_chain_callback
\* has issued it and its answer has not been handled.
FirstAcquisitionInFlight(r) ==
    /\ Len(calls[r]) = 2
    /\ calls[r][2].by = "start_lock_chain_callback"
    /\ \E p \in pending : p.origin = r /\ p.cb = "lock_route_callback"

\* What start_lock_chain_callback has issued for route r: exactly one
\* acquire_swap_lock, to the pool of the first hop, with a continuation that
\* carries the route id.
FirstAcquisitionIssued(r) ==
    LET first == ExpectedAcquire(r, 1) IN
    /\ calls[r][2].call = first
    /\ first.to = HopsOf(r)[1].swap_address
    /\ { p \in pending : p.origin = r }
           = { Continuation("lock_route_callback", <<r>>, <<first>>, r) }

\* C24 as stated: when the custody transfer succeeds,
\* start_lock_chain_callback pops the front wanted lock and issues exactly
\* one acquire_swap_lock to the pool of that hop with a continuation carrying
\* the route id, so that the queue of wanted locks holds n-1 entries while
\* the first acquisition is in flight.
C24_FirstLockPoppedAtStart ==
    \A r \in Routes :
        FirstAcquisitionInFlight(r) =>
            /\ FirstAcquisitionIssued(r)
            /\ Len(active_routes[r].locks_wanted) = Len(HopsOf(r)) - 1

\* C24 amended: start_lock_chain_callback reads the front wanted lock without
\* taking it off the queue and issues exactly one acquire_swap_lock to the
\* pool of that hop with a continuation carrying the route id; the queue of
\* wanted locks holds all n entries, the record being as route_swap stored
\* it, while the first acquisition is in flight.
C24_FirstLockPeekedAtStart ==
    \A r \in Routes :
        FirstAcquisitionInFlight(r) =>
            /\ FirstAcquisitionIssued(r)
            /\ Len(active_routes[r].locks_wanted) = Len(HopsOf(r))
            /\ active_routes[r] = registered[r].route_information

\* The first acquisition of a two-hop route is in flight.
C24_Witness ==
    \E r \in Routes :
        /\ Len(HopsOf(r)) = 2
        /\ FirstAcquisitionInFlight(r)
        /\ last.op = "start_lock_chain_callback"
        /\ last.err = "none"


(***************************************************************************)
(* C25: the compensation of a route.                                       *)
(***************************************************************************)
\* The positions in the history of route r of the calls of a compensation:
\* the cancel_lock calls and the refund.
CompensationPositions(r) ==
    { i \in 1..Len(calls[r]) :
        /\ calls[r][i].by = "lock_route_callback"
        /\ calls[r][i].call.name \in {"cancel_lock", "transfer"} }

Compensated(r) == CompensationPositions(r) # {}

\* The compensation of route r ran once, and nothing was issued after it.
CompensatedOnceAtTheEnd(r) ==
    LET positions == CompensationPositions(r)
        refunds == { i \in positions : calls[r][i].call.name = "transfer" }
        start == CHOOSE i \in positions : \A j \in positions : i <= j
    IN  /\ refunds = { Len(calls[r]) }
        /\ positions = start..Len(calls[r])
        /\ Len(calls[r]) - start = Len(grants[r])
        /\ \A i \in 1..(start - 1) :
               calls[r][i].call.name \in {"transfer_from", "acquire_swap_lock"}

\* The step that runs the compensation of a route leaves the record of the
\* route as it was.
CompensationKeepsRecord ==
    \A r \in Routes :
        (~Compensated(r) /\ Compensated(r)') => active_routes'[r] = active_routes[r]

\* C25: the compensation runs at most once per route, after it has run no
\* acquire_swap_lock, approve, deposit, execute_lock_swap, withdraw or final
\* transfer is ever issued for the route, and the invocation that runs it
\* leaves the stored record of the route unchanged.
C25_CompensationRunsOnce ==
    /\ [](\A r \in Routes : Compensated(r) => CompensatedOnceAtTheEnd(r))
    /\ [][CompensationKeepsRecord]_vars

\* A two-hop route was compensated after its first lock was granted, and the
\* answer to its compensation batch has been handled.
C25_Witness ==
    \E r \in Routes :
        /\ Len(HopsOf(r)) = 2
        /\ Len(grants[r]) = 1
        /\ Compensated(r)
        /\ AtRest(r)


(***************************************************************************)
(* C26: a finished route is never referenced again.                        *)
(***************************************************************************)
\* The continuations left to dispatch that carry the route id r.
ContinuationsNaming(r) == { p \in pending : p.args # <<>> /\ p.args[1] = r }

\* No handler runs with the id of a route that has issued its final transfer
\* or has been compensated.
NoStepOnFinishedRoute ==
    \A r \in Routes :
        (FinalTransfers(r) # <<>> \/ Compensated(r)) =>
            ~(last'.op \in CallbackOps /\ last'.route_id = r)

\* C26: once a route has issued its final transfer or has been compensated,
\* no step handler is invoked with the id of the route again: the final
\* transfer carries no continuation, and the continuation of the
\* compensation batch carries no route id.
C26_FinishedRouteNotReferenced ==
    /\ [](\A r \in Routes :
             /\ FinalTransfers(r) # <<>> => AtRest(r)
             /\ Compensated(r) =>
                    /\ ContinuationsNaming(r) = {}
                    /\ \A p \in pending :
                           p.origin = r =>
                               p.cb = "could_not_acquire_lock_error" /\ p.args = <<>>)
    /\ [][NoStepOnFinishedRoute]_vars

\* The answer to the compensation batch of a route has been handled by
\* could_not_acquire_lock_error, and another route has issued its final
\* transfer.
C26_Witness ==
    /\ last.op = "could_not_acquire_lock_error"
    /\ \E r \in Routes : Compensated(r) /\ AtRest(r)
    /\ \E r \in Routes : FinalTransfers(r) # <<>> /\ AtRest(r)


StrayIds == (0..MaxRoutes) \ DOMAIN active_routes

\* An invocation of callback cb with arguments args that answers no batch of
\* a route.
Stray(cb, args) == Continuation(cb, args, <<>>, NoRoute)

StrayStartLockChain ==
    \E id \in StrayIds, success \in BOOLEAN :
        start_lock_chain_callback(Stray("start_lock_chain_callback", <<id>>), success)

StrayLockRoute ==
    \E id \in StrayIds, success \in BOOLEAN, amount_out \in PoolAmounts :
        lock_route_callback(Stray("lock_route_callback", <<id>>), success,
                            [amount_out |-> amount_out, lock_id |-> 1])

StrayExecuteRoute ==
    \E id \in StrayIds, success \in BOOLEAN, last_output \in PoolAmounts :
        execute_route_callback(Stray("execute_route_callback", <<id, last_output>>), success)

StrayApprove ==
    \E id \in StrayIds, success \in BOOLEAN, last_output \in PoolAmounts :
        approve_callback(Stray("approve_callback", <<id, last_output>>), success)

StrayDeposit ==
    \E id \in StrayIds, success \in BOOLEAN :
        deposit_callback(Stray("deposit_callback", <<id>>), success)

StrayReceiveOutputAmount ==
    \E id \in StrayIds, success \in BOOLEAN, received_amount \in PoolAmounts :
        receive_output_amount_callback(Stray("receive_output_amount_callback", <<id>>),
                                       success, received_amount)

NextStray ==
    \/ RouteSwapValid
    \/ StartLockChain
    \/ LockRoute
    \/ CouldNotAcquireLockError
    \/ StrayStartLockChain
    \/ StrayLockRoute
    \/ StrayExecuteRoute
    \/ StrayApprove
    \/ StrayDeposit
    \/ StrayReceiveOutputAmount

SpecStray == Init /\ [][NextStray]_vars

RouteCallbackOps == CallbackOps \ { "could_not_acquire_lock_error" }

\* A step of a handler invoked with a route id that has no record fails,
\* changes nothing of the contract state and issues no call.
MissingRouteFails ==
    (last'.op \in RouteCallbackOps /\ last'.route_id \notin DOMAIN active_routes) =>
        /\ last'.err # "none"
        /\ UNCHANGED << contract_state, calls >>
        /\ pending' \subseteq pending

\* C28: a step handler invoked with a route id that has no record in the
\* route tracker fails, leaving the contract state unchanged and issuing no
\* external call.
C28_MissingRouteFails == [][MissingRouteFails]_vars

\* approve_callback has just failed on a route id without record while a
\* registered route waits for the answer to an acquisition.
C28_Witness ==
    /\ last.op = "approve_callback"
    /\ last.route_id \notin DOMAIN active_routes
    /\ last.err = "unwrap on None: no such route"
    /\ \E p \in pending : p.cb = "lock_route_callback"


(***************************************************************************)
(* C29: modify_route writes every change of a handler back.                *)
(***************************************************************************)
\* The record of route r after all the changes its handlers have made so
\* far: the record route_swap stored, with a wanted lock popped and an
\* acquired lock pushed per grant, the amount of the front wanted lock
\* rewritten to the last granted output, an acquired lock popped per issued
\* execution, the pending withdraw of the execution in flight, and the last
\* received amount.
RecordAfterChanges(r) ==
    LET initial == registered[r].route_information
        n == Len(HopsOf(r))
        g == Len(grants[r])
        e == Len(CallsNamed(r, "execute_lock_swap"))
        x == Len(received[r])
    IN  [ initial EXCEPT
            !.locks_wanted =
                [ k \in 1..(n - g) |->
                    IF k = 1 /\ g > 0
                    THEN [ initial.locks_wanted[g + 1] EXCEPT
                             !.amount_in = grants[r][g].amount_out ]
                    ELSE initial.locks_wanted[g + k] ],
            !.locks_waiting_for_execution =
                [ k \in 1..(g - e) |-> AcquiredLockOf(r, e + k) ],
            !.pending_withdraw =
                IF e = x + 1
                THEN << [swap_address |-> HopsOf(r)[e].swap_address,
                         withdraw_token |-> HopsOf(r)[e].token_out] >>
                ELSE <<>>,
            !.final_received_amount = IF x > 0 THEN received[r][x] ELSE 0 ]

\* A step that changes the record of a route changes the record of no other
\* route and leaves next_route_id as it is.
OneRecordWritten ==
    \A r \in DOMAIN active_routes :
        active_routes'[r] # active_routes[r] =>
            /\ next_route_id' = next_route_id
            /\ DOMAIN active_routes' = DOMAIN active_routes
            /\ \A q \in DOMAIN active_routes \ {r} : active_routes'[q] = active_routes[q]
            /\ last'.op \in CallbackOps
            /\ last'.route_id = r

\* C29: modify_route(id, f) stores under id exactly the record obtained by
\* applying f to a copy of the record stored under id before, and leaves the
\* record of every other route and next_route_id unchanged; so every queue
\* pop, queue push, amount rewrite and change of the pending withdraw a step
\* handler makes is visible to the next handler invoked for the route.
C29_ModifyRouteWritesBack ==
    /\ [](DOMAIN active_routes = Routes
           /\ \A r \in Routes : active_routes[r] = RecordAfterChanges(r))
    /\ [][OneRecordWritten]_vars

\* A two-hop route executes its second lock: both wanted locks were popped,
\* both acquired locks pushed and popped, and the pending withdraw was set,
\* taken and set again.
C29_Witness ==
    \E r \in Routes :
        /\ Len(HopsOf(r)) = 2
        /\ Len(received[r]) = 1
        /\ active_routes[r].pending_withdraw # <<>>
        /\ active_routes[r].final_received_amount = received[r][1]
        /\ active_routes[r] # registered[r].route_information


(***************************************************************************)
(* C30: what a step handler returns.                                       *)
(***************************************************************************)
\* The routes whose history a step has extended.
RoutesWithNewCalls ==
    { r \in DOMAIN calls' : r \notin DOMAIN calls \/ calls'[r] # calls[r] }

\* The calls a step has added to the history of route r.
NewCalls(r) ==
    LET old == IF r \in DOMAIN calls THEN Len(calls[r]) ELSE 0
    IN  [ i \in 1..(Len(calls'[r]) - old) |-> calls'[r][old + i].call ]

\* A step of route_swap or of a callback issues the calls of one batch, for
\* one route and by one handler, with at most one continuation, which is
\* attached to that batch; a continuation that advances the route carries the
\* id of the route.
OneBatchOneContinuation ==
    last'.op \in CallbackOps \cup {"route_swap"} =>
        /\ Cardinality(pending' \ pending) <= 1
        /\ Cardinality(RoutesWithNewCalls) <= 1
        /\ \A r \in RoutesWithNewCalls :
               /\ r = last'.route_id
               /\ \A i \in (Len(calls'[r]) - Len(NewCalls(r)) + 1)..Len(calls'[r]) :
                      calls'[r][i].by = last'.op
        /\ \A p \in pending' \ pending :
               /\ RoutesWithNewCalls = { p.origin }
               /\ p.batch = NewCalls(p.origin)
               /\ p.batch # <<>>
               /\ p.cb \in RouteCallbackOps => p.args # <<>> /\ p.args[1] = p.origin
               /\ p.cb \notin RouteCallbackOps =>
                      p.cb = "could_not_acquire_lock_error" /\ p.args = <<>>

\* C30: every invocation of a step handler returns exactly one batch of
\* outgoing calls with at most one continuation callback, and every
\* continuation that advances a route carries the id of that route.
C30_OneBatchOneContinuation == [][OneBatchOneContinuation]_vars

\* receive_output_amount_callback has issued the withdraw of route 1 with
\* execute_route_callback as continuation while route 0 has a continuation of
\* its own.
C30_Witness ==
    /\ last.op = "receive_output_amount_callback"
    /\ last.err = "none"
    /\ last.route_id = 1
    /\ \E p \in pending : p.origin = 1 /\ p.cb = "execute_route_callback" /\ p.args[1] = 1
    /\ \E p \in pending : p.origin = 0


(***************************************************************************)
(* C31: the route tracker keeps every record.                              *)
(***************************************************************************)
\* What identifies the saga a record belongs to: the fields no handler writes.
SagaOf(route) ==
    << route.user, route.initial_amount_in, route.initial_token_in, route.final_token_out >>

\* No step removes a stored record or puts the record of another saga in its
\* place.
RecordsKept ==
    \A r \in DOMAIN active_routes :
        /\ r \in DOMAIN active_routes'
        /\ SagaOf(active_routes'[r]) = SagaOf(active_routes[r])

\* C31: in every reachable state the route tracker holds a record for
\* exactly the ids 0 .. next_route_id - 1: no operation (completion,
\* compensation, custody failure) removes a stored record or replaces it with
\* the record of another route.
C31_RecordsNeverRemoved ==
    /\ [](/\ DOMAIN active_routes = 0..(next_route_id - 1)
          /\ \A r \in DOMAIN active_routes :
                 SagaOf(active_routes[r]) = SagaOf(registered[r].route_information))
    /\ [][RecordsKept]_vars

\* Two routes were registered; one has issued its final transfer, the other
\* was compensated or lost its custody transfer, and both have come to rest.
C31_Witness ==
    /\ next_route_id = 2
    /\ \E r \in Routes : FinalTransfers(r) # <<>> /\ AtRest(r)
    /\ \E r \in Routes : failed[r] \in {"custody", "acquisition"} /\ AtRest(r)


(***************************************************************************)
(* C32: hop conservation.                                                  *)
(***************************************************************************)
\* The hops of route r already handed to execution: the hops an
\* execute_lock_swap was issued for.
HopsHandedToExecution(r) ==
    LET executes == CallsNamed(r, "execute_lock_swap") IN
    [ k \in 1..Len(executes) |-> HopsOf(r)[k] ]

\* A successful acquisition moves exactly one hop from the front of the queue
\* of wanted locks to the back of the queue of acquired locks.
AcquisitionMovesOneHop ==
    \A r \in Routes :
        Len(grants'[r]) = Len(grants[r]) + 1 =>
            LET before == active_routes[r]
                after == active_routes'[r]
            IN  /\ before.locks_wanted # <<>>
                /\ Len(after.locks_wanted) = Len(before.locks_wanted) - 1
                /\ \A k \in 1..Len(after.locks_wanted) :
                       after.locks_wanted[k].swap_info = before.locks_wanted[k + 1].swap_info
                /\ after.locks_waiting_for_execution =
                       Append(before.locks_waiting_for_execution,
                              [swap_info |-> before.locks_wanted[1].swap_info,
                               lock_id |-> grants'[r][Len(grants'[r])].lock_id])

\* C32: in every reachable state of a route of n hops, the hops already
\* handed to execution, followed by the hops in the queue of acquired locks,
\* followed by the hops in the queue of wanted locks, are exactly the n hops
\* resolved at registration in their original order; in particular the two
\* queues hold n hops together throughout lock acquisition, and each
\* successful acquisition moves exactly one hop from the front of the wanted
\* queue to the back of the acquired queue.
C32_HopConservation ==
    /\ [](\A r \in Routes :
             LET handed == HopsHandedToExecution(r)
                 executes == CallsNamed(r, "execute_lock_swap")
             IN  /\ handed \o StoredHops(r) = HopsOf(r)
                 /\ \A k \in 1..Len(executes) :
                        executes[k].to = HopsOf(r)[k].swap_address
                 /\ CallsNamed(r, "approve") = <<>> =>
                        Len(active_routes[r].locks_wanted)
                            + Len(active_routes[r].locks_waiting_for_execution)
                                = Len(HopsOf(r)))
    /\ [][AcquisitionMovesOneHop]_vars

\* A two-hop route holds its first hop as acquired lock and its second hop as
\* wanted lock.
C32_Witness ==
    \E r \in Routes :
        /\ Len(HopsOf(r)) = 2
        /\ Len(active_routes[r].locks_wanted) = 1
        /\ Len(active_routes[r].locks_waiting_for_execution) = 1
        /\ last.op = "lock_route_callback"
        /\ last.err = "none"
        /\ failed[r] = "none"


(***************************************************************************)
(* C33: refund and final transfer exclude each other.                      *)
(***************************************************************************)
\* C33: for every route at most one of the refund and the final transfer is
\* ever issued, each at most once, and a refund is never issued for a route
\* for which a deposit has been issued: the router refunds only while none
\* of the funds of the route have been deposited into a pool.
C33_RefundXorFinalTransfer ==
    \A r \in Routes :
        LET transfers == PositionsOf(r, {"transfer"})
            refunds == { i \in transfers : calls[r][i].by = "lock_route_callback" }
            finals == { i \in transfers : calls[r][i].by = "execute_route_callback" }
            deposits == PositionsOf(r, {"deposit"})
        IN  /\ transfers = refunds \cup finals
            /\ Cardinality(transfers) <= 1
            /\ refunds # {} => deposits = {}
            /\ refunds # {} => PositionsOf(r, ExecutionNames) = {}

\* One route was refunded when its acquisition failed, another one was sent
\* its final transfer after its deposit.
C33_Witness ==
    /\ \E r \in Routes : Refunds(r) # <<>> /\ failed[r] = "acquisition"
    /\ \E r \in Routes : FinalTransfers(r) # <<>> /\ CallsNamed(r, "deposit") # <<>>


(***************************************************************************)
(* C34: every acquired lock is executed or cancelled, once.                *)
(***************************************************************************)
\* The positions in the history of route r of the calls of this name that
\* carry the lock id granted for hop k, at the pool of hop k.
UsesOfLock(r, k, name) ==
    { i \in PositionsOf(r, {name}) :
        /\ calls[r][i].call.to = HopsOf(r)[k].swap_address
        /\ calls[r][i].call.args = << grants[r][k].lock_id >> }

\* C34: every lock id acquired for a route is the argument of at most one
\* execute_lock_swap and of at most one cancel_lock, never of both, and when
\* the route has issued its final transfer or its refund no acquired lock of
\* the route is left neither executed nor cancelled.
C34_LocksExecutedOrCancelledOnce ==
    \A r \in Routes :
        LET settled == PositionsOf(r, {"transfer"}) # {}
            granted == 1..Len(grants[r])
        IN  /\ \A k \in granted :
                   LET executed == Cardinality(UsesOfLock(r, k, "execute_lock_swap"))
                       cancelled == Cardinality(UsesOfLock(r, k, "cancel_lock"))
                   IN  /\ executed + cancelled <= 1
                       /\ settled => executed + cancelled = 1
            /\ PositionsOf(r, {"execute_lock_swap"})
                   = UNION { UsesOfLock(r, k, "execute_lock_swap") : k \in granted }
            /\ PositionsOf(r, {"cancel_lock"})
                   = UNION { UsesOfLock(r, k, "cancel_lock") : k \in granted }

\* A two-hop route was refunded with the lock of its first hop cancelled.
C34_Witness ==
    \E r \in Routes :
        /\ Len(HopsOf(r)) = 2
        /\ Len(grants[r]) = 1
        /\ Refunds(r) # <<>>
        /\ Cardinality(UsesOfLock(r, 1, "cancel_lock")) = 1


(***************************************************************************)
(* C35: the router keeps nothing of a route that has reached its end.      *)
(***************************************************************************)
\* What a call, once it has succeeded, adds to the router's holding of a
\* token: transfer_from to the router and withdraw bring tokens in, deposit
\* and transfer send them out.
Inflow(call, token) ==
    CASE call.name = "transfer_from" /\ call.to = token /\ call.args[2] = ROUTER
             -> call.args[3]
      [] call.name = "withdraw" /\ call.args[1] = token -> call.args[2]
      [] call.name = "deposit" /\ call.args[1] = token -> 0 - call.args[2]
      [] call.name = "transfer" /\ call.to = token -> 0 - call.args[2]
      [] OTHER -> 0

RECURSIVE HoldingAfter(_, _, _)
HoldingAfter(r, token, i) ==
    IF i = 0 THEN 0
    ELSE HoldingAfter(r, token, i - 1) + Inflow(calls[r][i].call, token)

\* The router's holding of a token that the calls of route r account for.
NetHolding(r, token) == HoldingAfter(r, token, Len(calls[r]))

\* What the router has left in the pool of hop k: its deposit less the amount
\* the executed lock took, which is the amount the lock was acquired for.
LeftInPool(r, k) ==
    CallsNamed(r, "deposit")[k].args[2] - CallsNamed(r, "acquire_swap_lock")[k].args[2]

\* C35: when a route reaches its end with every ledger and pool call
\* succeeding (its final transfer issued, or its refund issued), the
\* router's net holding of every token on account of the route is zero:
\* everything pulled from the user or withdrawn from a pool was deposited
\* into the next pool, refunded, or transferred to the user, provided every
\* execute_lock_swap returned exactly the amount_out its lock promised.
C35_NothingKept ==
    \A r \in Routes :
        LET ended == PositionsOf(r, {"transfer"}) # {} IN
        (ended /\ failed[r] \in {"none", "acquisition"} /\ LocksHonoured(r)) =>
            /\ \A token \in Tokens : NetHolding(r, token) = 0
            /\ \A k \in 1..Len(CallsNamed(r, "deposit")) : LeftInPool(r, k) = 0

\* A two-hop route has issued its final transfer after every call succeeded,
\* the first pool having returned another amount than the route put in.
C35_Witness ==
    \E r \in Routes :
        /\ Len(HopsOf(r)) = 2
        /\ FinalTransfers(r) # <<>>
        /\ failed[r] = "none"
        /\ LocksHonoured(r)
        /\ received[r][1] # AmountInOf(r)
        /\ received[r][2] # received[r][1]


(***************************************************************************)
(* C36: a second descriptor for a pool changes no resolution.              *)
(***************************************************************************)
\* The pools of a swap route are all registered.
AllRegistered(swap_route, known_swap_contracts) ==
    \A i \in 1..Len(swap_route) : FindSwapContract(known_swap_contracts, swap_route[i]) # 0

\* A step changes neither the descriptor a registered pool address resolves
\* to nor the outcome of validating a route through registered pools (a step
\* that leaves the registry as it was changes neither).
ResolutionKept ==
    /\ \A swap_address \in PoolAddrs :
           LET i == FindSwapContract(swap_contracts, swap_address) IN
           i # 0 =>
               /\ FindSwapContract(swap_contracts', swap_address) = i
               /\ swap_contracts'[i] = swap_contracts[i]
    /\ \A r \in RouteRequests :
           AllRegistered(r[2], swap_contracts) =>
               validate_route_and_add_info(r[2], swap_contracts', r[3], r[4])
                   = validate_route_and_add_info(r[2], swap_contracts, r[3], r[4])

ResolutionStable == swap_contracts' = swap_contracts \/ ResolutionKept

\* C36: the validator resolves each pool address to the descriptor
\* registered first with that address, and add_swap_contract only appends;
\* so add_swap_contract with an address that is already registered and
\* another token pair never changes the tokens route validation resolves for
\* that address.
C36_FirstDescriptorWins ==
    /\ [](\A i \in 1..Len(InitialSwapContracts) :
             /\ Len(swap_contracts) >= i
             /\ swap_contracts[i] = InitialSwapContracts[i]
             /\ FindSwapContract(swap_contracts, InitialSwapContracts[i].swap_address)
                    = FindSwapContract(InitialSwapContracts,
                                       InitialSwapContracts[i].swap_address))
    /\ [][ResolutionStable]_vars

\* After pool P1 was registered a second time with another token pair, a
\* route through P1 was validated with the tokens of the first descriptor.
C36_Witness ==
    /\ Len(swap_contracts) = Len(InitialSwapContracts) + 1
    /\ Cardinality({ i \in 1..Len(swap_contracts) :
                       swap_contracts[i].swap_address = "P1" }) = 2
    /\ swap_contracts[Len(swap_contracts)] # InitialSwapContracts[1]
    /\ last.op = "route_swap"
    /\ last.err = "none"
    /\ registered[last.route_id].hops[1] =
           [swap_address |-> "P1", token_in |-> "A", token_out |-> "B"]


(***************************************************************************)
(* The index-counter implementation (src/swap-router): the acquisition of  *)
(* the locks of one route.  It keeps a wanted_locks queue it pops when a   *)
(* lock is requested, an acquired_locks queue filled at construction with  *)
(* one entry per hop, and the counter next_pending_lock_update of the      *)
(* entries that carry the id of an acquired lock.                          *)
(***************************************************************************)
\* Longest route registered in SpecSideBySide.
MaxSideBySideHops == 5

\* LiquidityLockId::initial_id(), the id of an entry no lock was acquired for.
IndexCounter_initial_id == "initial_id"

IndexCounter_RouteInformation_new(route, initial_amount_in, amount_out_minimum, user) ==
    [ user |-> user,
      initial_amount_in |-> initial_amount_in,
      initial_token_in |-> Front(route).token_in,
      final_received_amount |-> 0,
      final_token_out |-> Back(route).token_out,
      next_pending_lock_update |-> 0,
      wanted_locks |->
          [ i \in 1..Len(route) |->
              [ swap_address |-> route[i].swap_address,
                token_in |-> route[i].token_in,
                amount_in |-> IF i = 1 THEN initial_amount_in ELSE 0,
                amount_out_minimum |-> IF i = Len(route) THEN amount_out_minimum ELSE 0 ] ],
      acquired_locks |->
          [ i \in 1..Len(route) |->
              [ lock_id |-> IndexCounter_initial_id,
                swap_address |-> route[i].swap_address,
                token_in |-> route[i].token_in,
                token_out |-> route[i].token_out ] ],
      pending_withdraw |-> <<>> ]

\* get_next_missing_lock: wanted_locks.pop_front(); the lock it returns is
\* Front(route.wanted_locks), read by the caller before the pop.
IndexCounter_get_next_missing_lock(route) == [route EXCEPT !.wanted_locks = PopFront(@)]

\* update_next_pending_lock_id that leaves the counter where it was.
IndexCounter_update_next_pending_lock_id_not_counting(route, lock_id) ==
    LET i == route.next_pending_lock_update + 1 IN
    IF i <= Len(route.acquired_locks)
    THEN [route EXCEPT !.acquired_locks[i].lock_id = lock_id]
    ELSE route

\* acquired_locks.get_mut(next_pending_lock_update) is the entry at position
\* next_pending_lock_update + 1 of the one-based sequence.
IndexCounter_update_next_pending_lock_id(route, lock_id) ==
    LET i == route.next_pending_lock_update + 1
        written == IF i <= Len(route.acquired_locks)
                   THEN [route EXCEPT !.acquired_locks[i].lock_id = lock_id]
                   ELSE route
    IN  [written EXCEPT !.next_pending_lock_update = @ + 1]

IndexCounter_update_next_missing_lock_amount_in(route, amount_in) ==
    IF route.wanted_locks # <<>>
    THEN [route EXCEPT !.wanted_locks[1].amount_in = amount_in]
    ELSE route

\* &acquired_locks.make_contiguous()[..next_pending_lock_update]
IndexCounter_get_ready_pending_locks(route) ==
    SubSeq(route.acquired_locks, 1, route.next_pending_lock_update)

IndexCounter_build_cancel_lock_events(locks_to_cancel) ==
    [ i \in 1..Len(locks_to_cancel) |->
        cancel_lock(locks_to_cancel[i].swap_address, locks_to_cancel[i].lock_id) ]

IndexCounter_build_acquire_lock_events(lock_info) ==
    << acquire_swap_lock(lock_info.swap_address, lock_info.token_in,
                         lock_info.amount_in, lock_info.amount_out_minimum) >>

\* approve_relative of the route's initial amount.
IndexCounter_build_execute_approve_events(pending_lock, approval_amount) ==
    << Call(pending_lock.token_in, "approve_relative",
            <<pending_lock.swap_address, approval_amount>>) >>

\* A run of the index-counter router on one route: the record of the route,
\* the calls issued so far, and the callback awaiting the last batch.
IndexCounter_route_swap(route, amount_in, amount_out_minimum, sender) ==
    LET route_information ==
            IndexCounter_RouteInformation_new(route, amount_in, amount_out_minimum, sender)
    IN  [ route_information |-> route_information,
          issued |-> << transfer_from(route_information.initial_token_in,
                                      route_information.user, ROUTER,
                                      route_information.initial_amount_in) >>,
          cb |-> "start_lock_chain_callback" ]

\* A panic: the state stays as it was and no event is sent.
IndexCounter_panic(run) == [run EXCEPT !.cb = "none"]

\* start_lock_chain_callback names lock_route_callback(route_id) as the
\* callback of the batch twice, in build_acquire_lock_events and again itself.
IndexCounter_start_lock_chain_callback(run, success) ==
    IF ~success \/ run.route_information.wanted_locks = <<>>
    THEN IndexCounter_panic(run)
    ELSE LET lock_info == Front(run.route_information.wanted_locks) IN
         [ route_information |->
               IndexCounter_get_next_missing_lock(run.route_information),
           issued |-> run.issued \o IndexCounter_build_acquire_lock_events(lock_info),
           cb |-> "lock_route_callback" ]

IndexCounter_lock_route_callback(run, success, data) ==
    IF ~success
    THEN \* We couldn't acquire a lock. Cleanup and throw error.
         [ run EXCEPT
             !.issued = @ \o IndexCounter_build_cancel_lock_events(
                                 IndexCounter_get_ready_pending_locks(run.route_information)),
             !.cb = "could_not_acquire_lock_error" ]
    ELSE LET updated ==
                 IndexCounter_update_next_pending_lock_id(
                     IndexCounter_update_next_missing_lock_amount_in(
                         run.route_information, data.amount_out),
                     data.lock_id)
         IN  IF updated.wanted_locks # <<>>
             THEN [ route_information |-> IndexCounter_get_next_missing_lock(updated),
                    issued |-> run.issued \o
                        IndexCounter_build_acquire_lock_events(Front(updated.wanted_locks)),
                    cb |-> "lock_route_callback" ]
             ELSE IF updated.acquired_locks = <<>>
             THEN IndexCounter_panic(run)
             ELSE [ route_information |-> updated,
                    issued |-> run.issued \o
                        IndexCounter_build_execute_approve_events(
                            Front(updated.acquired_locks), updated.initial_amount_in),
                    cb |-> "approve_callback" ]

\* The host delivers one completion, [success, data], to the callback that
\* awaits it; the callbacks after the acquisition are left waiting.
IndexCounter_dispatch(run, completion) ==
    CASE run.cb = "start_lock_chain_callback" ->
             IndexCounter_start_lock_chain_callback(run, completion.success)
      [] run.cb = "lock_route_callback" ->
             IndexCounter_lock_route_callback(run, completion.success, completion.data)
      [] OTHER -> run

RECURSIVE IndexCounter_deliver(_, _)
IndexCounter_deliver(run, completions) ==
    IF completions = <<>>
    THEN run
    ELSE IndexCounter_deliver(IndexCounter_dispatch(run, Head(completions)),
                              Tail(completions))

(***************************************************************************)
(* SpecSideBySide: the queue-based router takes one valid route of one to  *)
(* five hops through custody, acquisition and compensation.                *)
(***************************************************************************)
\* The route of n hops A -> B -> C -> B -> ... through P1 and then P2.
SideBySideRequests ==
    { << "alice", [ i \in 1..n |-> IF i = 1 THEN "P1" ELSE "P2" ], "A",
         IF n % 2 = 1 THEN "B" ELSE "C", 100, 50 >> : n \in 1..MaxSideBySideHops }

RouteSwapSideBySide ==
    /\ next_route_id < 1
    /\ \E r \in SideBySideRequests : route_swap(r[1], r[2], r[3], r[4], r[5], r[6])

NextSideBySide ==
    \/ RouteSwapSideBySide
    \/ StartLockChain
    \/ LockRoute
    \/ CouldNotAcquireLockError

SpecSideBySide == Init /\ [][NextSideBySide]_vars

(***************************************************************************)
(* C37: both implementations issue the same acquisitions and cancellations *)
(***************************************************************************)
\* The completions the host has delivered to route r during custody and
\* acquisition, in order: the answer to transfer_from, the granted
\* acquisitions, and the acquisition that failed.
CompletionsDelivered(r) ==
    LET nothing == [amount_out |-> 0, lock_id |-> 0] IN
    IF \E p \in pending : p.cb = "start_lock_chain_callback" /\ p.origin = r
    THEN <<>>
    ELSE << [success |-> failed[r] # "custody", data |-> nothing] >>
         \o [ i \in 1..Len(grants[r]) |-> [success |-> TRUE, data |-> grants[r][i]] ]
         \o ( IF failed[r] = "acquisition"
              THEN << [success |-> FALSE, data |-> nothing] >>
              ELSE <<>> )

\* The index-counter router run on the route registered as r and on the
\* completions route r has received.
IndexCounterRun(r) ==
    IndexCounter_deliver(
        IndexCounter_route_swap(registered[r].hops, registered[r].args[5],
                                registered[r].args[6], registered[r].args[1]),
        CompletionsDelivered(r))

CallsOfName(cs, name) == SelectSeq(cs, LAMBDA c : c.name = name)

QueueBasedIssued(r) == [ i \in 1..Len(calls[r]) |-> calls[r][i].call ]

\* C37: run side by side on the same registry, the same valid route of at
\* most 5 hops and the same sequence of call completions, the index-counter
\* implementation and the queue-based implementation issue the same sequence
\* of acquire_swap_lock calls (pool, input token, amount_in, minimum) and,
\* when an acquisition fails, the same sequence of cancel_lock calls (pool,
\* lock id).
C37_SameAcquisitionsAndCancellations ==
    \A r \in Routes :
        LET old == IndexCounterRun(r).issued
            new == QueueBasedIssued(r)
        IN  /\ Len(registered[r].hops) <= MAX_ROUTE_LENGTH
            /\ CallsOfName(old, "acquire_swap_lock") = CallsOfName(new, "acquire_swap_lock")
            /\ CallsOfName(old, "cancel_lock") = CallsOfName(new, "cancel_lock")
            /\ CallsOfName(new, "cancel_lock") # <<>> => failed[r] = "acquisition"

\* A route of five hops whose fifth acquisition failed after four were
\* granted at differing amounts: both routers issued five acquire_swap_lock
\* calls and then cancelled the four locks.
C37_Witness ==
    \E r \in Routes :
        /\ Len(registered[r].hops) = MAX_ROUTE_LENGTH
        /\ failed[r] = "acquisition"
        /\ Len(grants[r]) = MAX_ROUTE_LENGTH - 1
        /\ grants[r][1].amount_out # grants[r][2].amount_out
        /\ Len(CallsOfName(IndexCounterRun(r).issued, "acquire_swap_lock")) = MAX_ROUTE_LENGTH
        /\ Len(CallsOfName(IndexCounterRun(r).issued, "cancel_lock")) = MAX_ROUTE_LENGTH - 1
        /\ Len(CallsOfName(QueueBasedIssued(r), "cancel_lock")) = MAX_ROUTE_LENGTH - 1

=============================================================================
